---- MODULE Spec2Model ----
(***************************************************************************)
(* AEGIS license tokens: issuance (poc/issue_license.py,                   *)
(* server/services.py) and the client-side verification pipeline           *)
(* (poc/verify_license.py, odoo/addons/aegis_client/models/                *)
(* license_verifier.py).                                                   *)
(*                                                                         *)
(* Conventions.                                                            *)
(*  - A Python dict is a function whose DOMAIN is the set of keys present, *)
(*    so `"exp" in payload` is  "exp" \in DOMAIN payload.  An optional     *)
(*    argument that is None is a field that is absent from the record of   *)
(*    arguments.                                                           *)
(*  - A Python str is a sequence of characters; "" is << >>.               *)
(*  - The wall clock counts ticks, TicksPerSecond ticks to the second;     *)
(*    int(now.timestamp()) is now \div TicksPerSecond.                     *)
(*  - An Ed25519 signature is the symbolic value Sign(key, input): it      *)
(*    verifies under the public key of that key pair, over that signing    *)
(*    input, and under nothing else.                                       *)
(***************************************************************************)
EXTENDS Integers, Sequences, FiniteSets, Bags, TLC

VARIABLES now, tok, req, origin, res, db, _license_service, uuids,
          files, components, sessions, aegis_license

vars == <<now, tok, req, origin, res, db, _license_service, uuids,
          files, components, sessions, aegis_license>>

(* The state of the license server: its database, the module-level         *)
(* singleton of services.py and the UUIDs uuid4() has drawn.               *)
server == <<db, _license_service, uuids>>

(* The host the components run on: its key files, and the LicenseIssuer    *)
(* and LicenseVerifier instances that have been constructed on it.         *)
host == <<files, components>>

(* The requests in flight on the server, each with the database session    *)
(* get_db gave it, and the aegis.license records of the Odoo client.       *)
clients == <<sessions, aegis_license>>

-----------------------------------------------------------------------------
(* Bounds of the model *)

MaxDays == 1
MaxTicks == 1
TicksPerSecond == 2
MaxDuration == 1
MaxStrLen == 2
SlackMax == 1
MaxLicenses == 2

(* Revoke requests in flight at the same time *)
MaxRequests == 2

(* Program constants *)

SecondsPerDay == 86400
Issuer == "https://license.biz4a.com"

(* Mutant: a fourth license type is recognised *)
valid_types_WithTrial == {"perpetual", "subscription", "demo", "trial"}

valid_types == {"perpetual", "subscription", "demo"}
RequiredClaims == {"jti", "iss", "iat"}

TicksPerDay == SecondsPerDay * TicksPerSecond

(* fastapi.status *)
HTTP_200_OK == 200
HTTP_201_CREATED == 201
HTTP_204_NO_CONTENT == 204
HTTP_404_NOT_FOUND == 404
HTTP_409_CONFLICT == 409
HTTP_422_UNPROCESSABLE_ENTITY == 422
HTTP_500_INTERNAL_SERVER_ERROR == 500

(* Small input sets *)

OtherIssuer == "https://license.example.org"
KeyPairs == {"aegis", "other"}
Modules == {"payroll", "accounting"}
Versions == {"16", "17", "18"}
AllowedVersionLists == {{}, {"17"}, {"17", "18"}}
TypeInputs == valid_types \cup {"trial"}
Durations == (-1) .. MaxDuration
Customer == [id |-> "CUST-001", name |-> "Acme"]
(* str(uuid), the text of a UUID, and UUID(text), which raises ValueError  *)
(* for a text that IsUuidText does not hold of; NotAUuid is such a text.   *)
str(uuid) == [text_of |-> uuid]

IsUuidText(text) == "text_of" \in DOMAIN text

UUID(text) == text.text_of

NotAUuid == [not_a_uuid |-> TRUE]

(* The texts of the UUIDs drawn outside the server: by                     *)
(* LicenseIssuer.issue_license, and by who signs a hand-made claim set.    *)
LicenseIds == {str(0)}

HandMadeId == str(-1)
Alphabet == {"a", ":"}

Instants == {d * TicksPerDay + k : d \in 0 .. MaxDays, k \in 0 .. MaxTicks}

Strs == UNION {[1 .. n -> Alphabet] : n \in 0 .. MaxStrLen}

(* Optional record field: present when c holds *)
Opt(c, r) == IF c THEN r ELSE << >>

(* dict.get(key) for a key whose value is compared only for presence *)
Has(d, k) == k \in DOMAIN d

-----------------------------------------------------------------------------
(* Instance fingerprint *)

(* hashlib.sha256(...).hexdigest(), taken as collision-free: the digest    *)
(* determines the hashed bytes.                                            *)
sha256_hexdigest(bytes) == <<"#">> \o bytes

generate_instance_fingerprint(db_uuid, domain) ==
    <<"sha256:">> \o sha256_hexdigest(db_uuid \o <<":">> \o domain)

(* Mutant: the separator between id and domain is left out *)
_generate_fingerprint_NoSeparator(db_uuid, domain) ==
    <<"sha256:">> \o sha256_hexdigest(db_uuid \o domain)

_generate_fingerprint(db_uuid, domain) ==
    <<"sha256:">> \o sha256_hexdigest(db_uuid \o <<":">> \o domain)

(* Mutant: the domain is hashed before the id *)
LicenseService_generate_instance_fingerprint_DomainFirst(db_uuid, domain) ==
    <<"sha256:">> \o sha256_hexdigest(domain \o <<":">> \o db_uuid)

(* LicenseService.generate_instance_fingerprint *)
LicenseService_generate_instance_fingerprint(db_uuid, domain) ==
    <<"sha256:">> \o sha256_hexdigest(db_uuid \o <<":">> \o domain)

(* _generate_fingerprint of the Odoo client's LicenseVerifier *)
aegis_client_generate_fingerprint(db_uuid, domain) ==
    <<"sha256:">> \o sha256_hexdigest(db_uuid \o <<":">> \o domain)

-----------------------------------------------------------------------------
(* Token wire format: header.payload.signature *)

(* int(datetime.timestamp()) *)
Timestamp(t) == t \div TicksPerSecond

(* The Ed25519 signature over the signing input header.payload.  tail is   *)
(* the part of the signature bytes that shares the last base64url          *)
(* character with the unused bits of the encoding.                         *)
Sign(key, header, payload) ==
    [head |-> <<key, header, payload>>, tail |-> 0]

(* base64url of the signature bytes without padding: the last character    *)
(* carries the tail of the bytes in its high bits, its low bits are zero.  *)
base64url_encode(sigbytes) ==
    [head |-> sigbytes.head, last |-> sigbytes.tail * (SlackMax + 1), short |-> FALSE]

(* jwt.utils.base64url_decode: urlsafe_b64decode drops the bits of the     *)
(* last character that do not fill a byte.                                 *)
base64url_decode(seg) ==
    [head |-> seg.head, tail |-> seg.last \div (SlackMax + 1)]

(* jwt.encode(payload, key, algorithm="EdDSA", headers={"kid": kid}) *)
jwt_encode(claims, key, kid) ==
    LET header == [alg |-> "EdDSA", kid |-> kid]
        payload == [b64ok |-> TRUE, claims |-> claims]
    IN  [form |-> "jws", header |-> header, payload |-> payload,
         sig |-> base64url_encode(Sign(key, header, payload))]

(* A token whose payload carries, for the claims named in illtyped, a JSON  *)
(* value of another type than the issuer writes: a string for exp, a       *)
(* string for module, a number for module.allowed_major_versions.          *)
jwt_encode_json(claims, illtyped, key, kid) ==
    LET header == [alg |-> "EdDSA", kid |-> kid]
        payload == [b64ok |-> TRUE, claims |-> claims, illtyped |-> illtyped]
    IN  [form |-> "jws", header |-> header, payload |-> payload,
         sig |-> base64url_encode(Sign(key, header, payload))]

(* The claims of a decoded payload whose value has the wrong type *)
IllTyped(payload) == IF Has(payload, "illtyped") THEN payload.illtyped ELSE {}

NoToken == [form |-> "none"]
EmptyToken == [form |-> "empty"]
NotAJwt == [form |-> "not.a.jwt"]
TwoPartToken == [form |-> "two-part"]

-----------------------------------------------------------------------------
(* Issuer: LicenseIssuer (POC) and LicenseService (server) *)

TheIssuer == [key_id |-> "aegis-2026-01", private_key |-> "aegis", issuer |-> Issuer]

TheService == [key_id |-> "aegis-2026-01", private_key |-> "aegis", issuer |-> Issuer]

Truthy(d, k) == Has(d, k) /\ d[k] # << >>

(* Mutant: the expiry is computed for every license type with a duration *)
CalcExpiry_AnyType(rq, t) ==
    IF Has(rq, "duration_days")
    THEN [err |-> FALSE,
          expires_at |-> <<Timestamp(t + rq.duration_days * TicksPerDay)>>]
    ELSE [err |-> rq.license_type \in {"subscription", "demo"}, expires_at |-> << >>]

(* "Calculate expiration": << >> is expires_at = None; err is the          *)
(* ValueError for a subscription or demo license without duration_days.    *)
CalcExpiry(rq, t) ==
    IF rq.license_type \in {"subscription", "demo"}
    THEN IF ~Has(rq, "duration_days")
         THEN [err |-> TRUE, expires_at |-> << >>]
         ELSE [err |-> FALSE,
               expires_at |-> <<Timestamp(t + rq.duration_days * TicksPerDay)>>]
    ELSE [err |-> FALSE, expires_at |-> << >>]

(* Mutant: the instance_fingerprint claim is always written, empty when    *)
(* no fingerprint was given.                                               *)
BuildPayload_EmptyFingerprint(self, license_id, rq, issued_at, expires_at) ==
    [jti |-> license_id,
     iss |-> self.issuer,
     iat |-> issued_at,
     customer |-> [id |-> rq.customer_id, name |-> rq.customer_name],
     module |-> [technical_name |-> rq.module_name,
                 allowed_major_versions |-> rq.allowed_versions],
     license_type |-> rq.license_type,
     instance_fingerprint |-> IF Truthy(rq, "instance_fingerprint")
                              THEN rq.instance_fingerprint ELSE << >>]
    @@ Opt(expires_at # << >>, [exp |-> expires_at[1]])

(* "Build JWT payload" with the two optional claims *)
BuildPayload(self, license_id, rq, issued_at, expires_at) ==
    [jti |-> license_id,
     iss |-> self.issuer,
     iat |-> issued_at,
     customer |-> [id |-> rq.customer_id, name |-> rq.customer_name],
     module |-> [technical_name |-> rq.module_name,
                 allowed_major_versions |-> rq.allowed_versions],
     license_type |-> rq.license_type]
    @@ Opt(expires_at # << >>, [exp |-> expires_at[1]])
    @@ Opt(Truthy(rq, "instance_fingerprint"),
           [instance_fingerprint |-> rq.instance_fingerprint])

(* LicenseIssuer.issue_license; license_id is the uuid4 drawn in the call, *)
(* t the clock read in the call.                                           *)
issue_license(self, rq, license_id, t) ==
    IF rq.license_type \notin valid_types
    THEN [ok |-> FALSE, error |-> "ValueError"]
    ELSE LET e == CalcExpiry(rq, t)
         IN  IF e.err
             THEN [ok |-> FALSE, error |-> "ValueError"]
             ELSE [ok |-> TRUE, error |-> "none",
                   token |-> jwt_encode(
                       BuildPayload(self, license_id, rq, Timestamp(t), e.expires_at),
                       self.private_key, self.key_id)]

(* LicenseService.issue_license: the same steps, license_id is a parameter *)
LicenseService_issue_license(self, license_id, rq, t) ==
    IF rq.license_type \notin valid_types
    THEN [ok |-> FALSE, error |-> "ValueError"]
    ELSE LET e == CalcExpiry(rq, t)
         IN  IF e.err
             THEN [ok |-> FALSE, error |-> "ValueError"]
             ELSE [ok |-> TRUE, error |-> "none",
                   token |-> jwt_encode(
                       BuildPayload(self, license_id, rq, Timestamp(t), e.expires_at),
                       self.private_key, self.key_id)]

-----------------------------------------------------------------------------
(* Verifier: LicenseVerifier *)

TheVerifier == [public_key |-> "aegis", expected_issuer |-> Issuer]

(* jwt.decode(token, key, algorithms=["EdDSA"], options={verify_signature, *)
(* verify_exp: False, require: [jti, iss, iat]}): the segments are split   *)
(* and decoded, the signature is checked over header.payload, then the     *)
(* required claims.  exc is the PyJWT exception raised, "none" on success. *)
(* The tokens of the model carry no nbf and no aud claim, and their iat is  *)
(* never ahead of the clock, so the other registered-claim validations of  *)
(* the call pass.                                                          *)
jwt_decode(token, public_key) ==
    IF token.form # "jws"
    THEN [exc |-> "DecodeError"]
    ELSE IF ~token.payload.b64ok \/ token.sig.short
    THEN [exc |-> "DecodeError"]
    ELSE IF base64url_decode(token.sig) # Sign(public_key, token.header, token.payload)
    THEN [exc |-> "InvalidSignatureError"]
    ELSE IF \E c \in RequiredClaims : ~Has(token.payload.claims, c)
    THEN [exc |-> "MissingRequiredClaimError"]
    ELSE [exc |-> "none", payload |-> token.payload.claims,
          illtyped |-> IllTyped(token.payload)]

(* Mutant: a token is still good at the instant exp *)
IsExpired_Strict(payload, t) ==
    Has(payload, "exp") /\ t > payload.exp * TicksPerSecond

(* Step 1b: `"exp" in payload` and now_timestamp >= exp_timestamp *)
IsExpired(payload, t) ==
    Has(payload, "exp") /\ t >= payload.exp * TicksPerSecond

(* Step 2 *)
IssuerMismatch(self, payload) ==
    payload.iss # self.expected_issuer

(* payload.get("module", {}) *)
module_info(payload) ==
    IF Has(payload, "module") THEN payload.module ELSE << >>

(* Mutant: any module name the token carries is taken for the requested *)
ModuleMismatch_Lenient(payload, module_name) ==
    LET mi == module_info(payload)
    IN  ~Has(mi, "technical_name")

(* Step 3 *)
ModuleMismatch(payload, module_name) ==
    LET mi == module_info(payload)
    IN  ~Has(mi, "technical_name") \/ mi.technical_name # module_name

(* module_info.get("allowed_major_versions", []) *)
allowed_versions(payload) ==
    LET mi == module_info(payload)
    IN  IF Has(mi, "allowed_major_versions") THEN mi.allowed_major_versions ELSE {}

(* Mutant: the version check is skipped *)
VersionNotAllowed_Skipped(payload, odoo_version) == FALSE

(* Step 4 *)
VersionNotAllowed(payload, odoo_version) ==
    odoo_version \notin allowed_versions(payload)

(* Step 5: `"instance_fingerprint" in payload` *)
IsBound(payload) == Has(payload, "instance_fingerprint")

(* `not instance_db_uuid or not instance_domain` *)
ContextMissing(args) ==
    ~Truthy(args, "instance_db_uuid") \/ ~Truthy(args, "instance_domain")

FingerprintMismatch(payload, args) ==
    payload.instance_fingerprint #
        _generate_fingerprint(args.instance_db_uuid, args.instance_domain)

(* Mutant: the instance details are demanded of every token *)
BindingContextError_Always(payload, args) ==
    ContextMissing(args)

(* "License is bound to an instance, but instance details not provided" *)
BindingContextError(payload, args) ==
    IsBound(payload) /\ ContextMissing(args)

(* "Instance fingerprint mismatch" *)
BindingMismatchError(payload, args) ==
    IsBound(payload) /\ FingerprintMismatch(payload, args)

(* Mutant: the demo rule is left out *)
DemoPolicyViolation_Off(payload) == FALSE

(* Step 6: license_type == "demo" and not payload.get("exp") *)
DemoPolicyViolation(payload) ==
    /\ Has(payload, "license_type")
    /\ payload.license_type = "demo"
    /\ (~Has(payload, "exp") \/ payload.exp = 0)

(* The except clauses of verify_license, in order: the first clause whose  *)
(* class the raised exception is an instance of gives the message.         *)
JwtAncestors(exc) ==
    CASE exc = "ExpiredSignatureError" -> {"ExpiredSignatureError", "InvalidTokenError"}
      [] exc = "InvalidSignatureError" -> {"InvalidSignatureError", "DecodeError", "InvalidTokenError"}
      [] exc = "DecodeError" -> {"DecodeError", "InvalidTokenError"}
      [] exc = "MissingRequiredClaimError" -> {"MissingRequiredClaimError", "InvalidTokenError"}

(* Mutant: the clause for the base class comes first *)
ExceptClauses_BaseFirst ==
    << <<"InvalidTokenError", "Invalid license token">>,
       <<"ExpiredSignatureError", "License has expired">>,
       <<"InvalidSignatureError", "Invalid license signature">>,
       <<"DecodeError", "License decode error">> >>

ExceptClauses ==
    << <<"ExpiredSignatureError", "License has expired">>,
       <<"InvalidSignatureError", "Invalid license signature">>,
       <<"DecodeError", "License decode error">>,
       <<"InvalidTokenError", "Invalid license token">> >>

HandleJwtError(exc) ==
    LET i == CHOOSE k \in 1 .. Len(ExceptClauses) :
                 /\ ExceptClauses[k][1] \in JwtAncestors(exc)
                 /\ \A j \in 1 .. (k - 1) : ExceptClauses[j][1] \notin JwtAncestors(exc)
    IN  [ok |-> FALSE, error |-> ExceptClauses[i][2]]

Raise(msg) == [ok |-> FALSE, error |-> msg]

(* An exception that no except clause of the function catches: it reaches  *)
(* the caller as it is.                                                    *)
Escape(exc) == [ok |-> FALSE, error |-> exc, escaped |-> TRUE]

(* now_timestamp >= exp_timestamp with an exp that is a string: TypeError *)
ExpTypeError(payload, illtyped) ==
    Has(payload, "exp") /\ "exp" \in illtyped

(* module_info.get(...) on a module claim that is a string: AttributeError *)
ModuleAttributeError(payload, illtyped) ==
    Has(payload, "module") /\ "module" \in illtyped

(* `odoo_version not in allowed_versions` with a number: TypeError *)
VersionsTypeError(payload, illtyped) ==
    /\ Has(module_info(payload), "allowed_major_versions")
    /\ "allowed_major_versions" \in illtyped

(* Mutant: the module name is checked before expiry and issuer *)
verify_license_ModuleFirst(self, license_token, args, t) ==
    LET d == jwt_decode(license_token, self.public_key)
    IN  IF d.exc # "none" THEN HandleJwtError(d.exc)
        ELSE LET payload == d.payload
             IN  IF ModuleMismatch(payload, args.module_name)
                 THEN Raise("License is for another module")
                 ELSE IF IsExpired(payload, t)
                 THEN HandleJwtError("ExpiredSignatureError")
                 ELSE IF IssuerMismatch(self, payload)
                 THEN Raise("Invalid issuer")
                 ELSE IF VersionNotAllowed(payload, args.odoo_version)
                 THEN Raise("Odoo version not allowed")
                 ELSE IF BindingContextError(payload, args)
                 THEN Raise("Instance details not provided")
                 ELSE IF BindingMismatchError(payload, args)
                 THEN Raise("Instance fingerprint mismatch")
                 ELSE IF DemoPolicyViolation(payload)
                 THEN Raise("Demo license must have expiration")
                 ELSE [ok |-> TRUE, error |-> "none", claims |-> payload]

(* LicenseVerifier.verify_license; args carries module_name, odoo_version  *)
(* and the optional instance_db_uuid and instance_domain; t is the clock   *)
(* read in the call.                                                       *)
verify_license(self, license_token, args, t) ==
    LET d == jwt_decode(license_token, self.public_key)
    IN  IF d.exc # "none" THEN HandleJwtError(d.exc)
        ELSE LET payload == d.payload
             IN  IF ExpTypeError(payload, d.illtyped)
                 THEN Escape("TypeError")
                 ELSE IF IsExpired(payload, t)
                 THEN HandleJwtError("ExpiredSignatureError")
                 ELSE IF IssuerMismatch(self, payload)
                 THEN Raise("Invalid issuer")
                 ELSE IF ModuleAttributeError(payload, d.illtyped)
                 THEN Escape("AttributeError")
                 ELSE IF ModuleMismatch(payload, args.module_name)
                 THEN Raise("License is for another module")
                 ELSE IF VersionsTypeError(payload, d.illtyped)
                 THEN Escape("TypeError")
                 ELSE IF VersionNotAllowed(payload, args.odoo_version)
                 THEN Raise("Odoo version not allowed")
                 ELSE IF BindingContextError(payload, args)
                 THEN Raise("Instance details not provided")
                 ELSE IF BindingMismatchError(payload, args)
                 THEN Raise("Instance fingerprint mismatch")
                 ELSE IF DemoPolicyViolation(payload)
                 THEN Raise("Demo license must have expiration")
                 ELSE [ok |-> TRUE, error |-> "none", claims |-> payload]

-----------------------------------------------------------------------------
(* Server: the settings, the LicenseService singleton and its              *)
(* verify_license                                                          *)

(* _license_service = None; a component that has not been constructed *)
NotConstructed == [constructed |-> FALSE]

(* config.settings *)
settings ==
    [private_key_path |-> "keys/aegis-2026-01.private.pem",
     public_key_path |-> "keys/aegis-2026-01.public.pem",
     key_id |-> "aegis-2026-01", license_issuer |-> Issuer]

(* The key files of the host.  A file holds the PEM of the Ed25519 key of  *)
(* a key pair, named by the pair, or the PEM of a key of another type, or  *)
(* it is missing.                                                          *)
KeyPaths == {settings.private_key_path, settings.public_key_path}

FileContents == KeyPairs \cup {"rsa", "missing"}

(* AegisLicense._get_public_key_path: the public key shipped with the      *)
(* Odoo client module                                                      *)
_get_public_key_path ==
    "aegis_client/security/public_keys/aegis-2026-01.public.pem"

(* The key files as deployed: all hold the keys of the pair "aegis" *)
DeployedFiles == [path \in KeyPaths \cup {_get_public_key_path} |-> "aegis"]

(* Mutant: the type of the loaded key is not looked at *)
_load_private_key_AnyType(fs, key_path) ==
    IF fs[key_path] = "missing"
    THEN [exc |-> "FileNotFoundError"]
    ELSE [exc |-> "none", key |-> fs[key_path]]

(* _load_private_key of LicenseIssuer and of LicenseService:               *)
(* FileNotFoundError when the file does not exist, ValueError when the key *)
(* is not an Ed25519 private key.                                          *)
_load_private_key(fs, key_path) ==
    IF fs[key_path] = "missing"
    THEN [exc |-> "FileNotFoundError"]
    ELSE IF fs[key_path] \notin KeyPairs
    THEN [exc |-> "ValueError"]
    ELSE [exc |-> "none", key |-> fs[key_path]]

(* _load_public_key of the two LicenseVerifier classes *)
_load_public_key(fs, key_path) ==
    IF fs[key_path] = "missing"
    THEN [exc |-> "FileNotFoundError"]
    ELSE IF fs[key_path] \notin KeyPairs
    THEN [exc |-> "ValueError"]
    ELSE [exc |-> "none", key |-> fs[key_path]]

(* LicenseIssuer(private_key_path, key_id): the exception of               *)
(* _load_private_key leaves __init__, and no instance is returned.         *)
LicenseIssuer_init(fs, private_key_path, key_id) ==
    LET k == _load_private_key(fs, private_key_path)
    IN  IF k.exc # "none"
        THEN [exc |-> k.exc]
        ELSE [exc |-> "none",
              instance |-> [constructed |-> TRUE, key_id |-> key_id,
                            private_key |-> k.key, issuer |-> Issuer]]

(* LicenseVerifier(public_key_path, expected_issuer) *)
LicenseVerifier_init(fs, public_key_path, expected_issuer) ==
    LET k == _load_public_key(fs, public_key_path)
    IN  IF k.exc # "none"
        THEN [exc |-> k.exc]
        ELSE [exc |-> "none",
              instance |-> [constructed |-> TRUE, public_key |-> k.key,
                            expected_issuer |-> expected_issuer]]

(* One read of a key file, and the function in which it is made *)
FileRead(path, during) == [file |-> path, during |-> during]

(* LicenseService(): __init__ loads the private key from its file; when   *)
(* the load raises, no instance is made.                                   *)
LicenseService_init(fs) ==
    LET k == _load_private_key(fs, settings.private_key_path)
        reads == IF fs[settings.private_key_path] = "missing"
                 THEN << >>
                 ELSE <<FileRead(settings.private_key_path, "__init__")>>
    IN  IF k.exc # "none"
        THEN [exc |-> k.exc, service |-> NotConstructed, reads |-> reads]
        ELSE [exc |-> "none",
              service |-> [constructed |-> TRUE, key_id |-> settings.key_id,
                           private_key |-> k.key,
                           issuer |-> settings.license_issuer],
              reads |-> reads]

(* get_license_service(): the global instance, constructed by the first    *)
(* call                                                                    *)
get_license_service(current, fs) ==
    IF ~current.constructed
    THEN LicenseService_init(fs)
    ELSE [exc |-> "none", service |-> current, reads |-> << >>]

(* LicenseService.verify_license(token): the public key file is opened and *)
(* read in the call, the token is decoded as in the client, the issuer is  *)
(* compared; the exceptions of jwt.decode and jwt.InvalidIssuerError are   *)
(* raised to the caller.                                                   *)
LicenseService_verify_license(self, token, fs) ==
    LET public_key_path == settings.public_key_path
        reads == <<FileRead(public_key_path, "verify_license")>>
        d == jwt_decode(token, fs[public_key_path])
    IN  IF fs[public_key_path] = "missing"
        THEN Escape("FileNotFoundError") @@ [reads |-> << >>]
        ELSE IF fs[public_key_path] \notin KeyPairs
        THEN Escape("InvalidKeyError") @@ [reads |-> reads]
        ELSE IF d.exc # "none"
        THEN Escape(d.exc) @@ [reads |-> reads]
        ELSE IF d.payload.iss # self.issuer
        THEN Escape("InvalidIssuerError") @@ [reads |-> reads]
        ELSE [ok |-> TRUE, error |-> "none", payload |-> d.payload,
              illtyped |-> d.illtyped, reads |-> reads]

-----------------------------------------------------------------------------
(* Server: the endpoints of routers/customers.py and routers/licenses.py.  *)
(* A table is the set of its rows; an endpoint is an operator from the     *)
(* database, the singleton and the request to the response, the database   *)
(* and the singleton after the request, and the key files read.            *)

(* The values uuid4() returns in the endpoint *)
UuidPool == 1 .. MaxLicenses

(* select(...).where(id == x) ... scalar_one_or_none(): the rows found *)
RowsWithId(table, x) == {row \in table : row.id = x}

TheRow(rows) == CHOOSE row \in rows : TRUE

Response(code, database, service) ==
    [status |-> code, db |-> database, service |-> service, reads |-> << >>]

(* create_customer *)
create_customer(database, service, customer) ==
    IF RowsWithId(database.customers, customer.id) # {}
    THEN Response(HTTP_409_CONFLICT, database, service)
    ELSE Response(HTTP_201_CREATED,
             [database EXCEPT !.customers =
                  @ \cup {[id |-> customer.id, name |-> customer.name,
                           is_active |-> TRUE]}],
             service)

(* update_customer: the fields that are set in the request are assigned *)
update_customer(database, service, customer_id, customer_update) ==
    LET found == RowsWithId(database.customers, customer_id)
    IN  IF found = {}
        THEN Response(HTTP_404_NOT_FOUND, database, service)
        ELSE LET customer == TheRow(found)
                 updated == [f \in DOMAIN customer |->
                                IF f \in DOMAIN customer_update
                                THEN customer_update[f] ELSE customer[f]]
             IN  Response(HTTP_200_OK,
                     [database EXCEPT !.customers = (@ \ found) \cup {updated}],
                     service)

(* The rows of a table kept as a bag (rows that differ only in their       *)
(* autoincrement id are copies of one element) that are in keep            *)
Rows(table, keep) == [a \in keep |-> table[a]]

(* delete_customer: the delete cascades over Customer.licenses and over    *)
(* License.audit_logs (cascade="all, delete-orphan").                      *)
delete_customer(database, service, customer_id) ==
    LET found == RowsWithId(database.customers, customer_id)
    IN  IF found = {}
        THEN Response(HTTP_404_NOT_FOUND, database, service)
        ELSE LET gone == {l \in database.licenses : l.customer_id = customer_id}
                 gone_ids == {l.id : l \in gone}
             IN  Response(HTTP_204_NO_CONTENT,
                     [customers |-> database.customers \ found,
                      licenses |-> database.licenses \ gone,
                      audit_logs |-> Rows(database.audit_logs,
                                         {a \in BagToSet(database.audit_logs) :
                                             a.license_id \notin gone_ids})],
                     service)

(* The validation of the request body against LicenseCreate, which FastAPI *)
(* does before the endpoint runs: a body that fails is answered 422.       *)
LicenseCreate_valid(license_data) ==
    /\ license_data.module_name # ""
    /\ license_data.allowed_major_versions # {}
    /\ license_data.license_type \in {"perpetual", "subscription", "demo"}
    /\ Has(license_data, "duration_days") => license_data.duration_days >= 1

(* Mutant: the endpoint does not look at the duration *)
DurationMissing_Off(license_data) == FALSE

(* "Validate duration for subscription/demo licenses":                     *)
(* `not license_data.duration_days`                                        *)
DurationMissing(license_data) ==
    /\ license_data.license_type \in {"subscription", "demo"}
    /\ (~Has(license_data, "duration_days") \/ license_data.duration_days = 0)

(* ",".join(allowed_major_versions) *)
CommaJoined(list) == [joined |-> list]

(* The endpoint issue_license; fs are the key files, uuid is the value     *)
(* uuid4() returns, t the clock.  drawn tells whether uuid4() was called.  *)
(* An exception of get_license_service() is not caught by the endpoint:    *)
(* the request is answered 500 and its session is rolled back.             *)
api_issue_license(database, service, fs, license_data, uuid, t) ==
    LET found == RowsWithId(database.customers, license_data.customer_id)
        rejected(code) == Response(code, database, service) @@ [drawn |-> FALSE]
    IN  IF ~LicenseCreate_valid(license_data)
        THEN rejected(HTTP_422_UNPROCESSABLE_ENTITY)
        ELSE IF found = {}
        THEN rejected(HTTP_404_NOT_FOUND)
        ELSE IF DurationMissing(license_data)
        THEN rejected(HTTP_422_UNPROCESSABLE_ENTITY)
        ELSE LET customer == TheRow(found)
                 license_id == uuid
                 g == get_license_service(service, fs)
                 rq == [customer_id |-> customer.id,
                        customer_name |-> customer.name,
                        module_name |-> license_data.module_name,
                        allowed_versions |-> license_data.allowed_major_versions,
                        license_type |-> license_data.license_type]
                       @@ Opt(Has(license_data, "duration_days"),
                              [duration_days |->
                                   IF Has(license_data, "duration_days")
                                   THEN license_data.duration_days ELSE 0])
                       @@ Opt(Has(license_data, "instance_fingerprint"),
                              [instance_fingerprint |->
                                   IF Has(license_data, "instance_fingerprint")
                                   THEN license_data.instance_fingerprint
                                   ELSE << >>])
                 r == LicenseService_issue_license(g.service, str(license_id), rq, t)
             IN  IF g.exc # "none" \/ ~r.ok
                 THEN [status |-> HTTP_500_INTERNAL_SERVER_ERROR, db |-> database,
                       service |-> g.service, reads |-> g.reads, drawn |-> TRUE]
                 ELSE LET db_license ==
                              [id |-> license_id,
                               customer_id |-> customer.id,
                               module_name |-> license_data.module_name,
                               license_type |-> license_data.license_type,
                               allowed_major_versions |->
                                   CommaJoined(license_data.allowed_major_versions),
                               issued_at |-> t,
                               status |-> "active",
                               token |-> r.token,
                               key_id |-> g.service.key_id]
                              @@ Opt(Has(license_data, "duration_days"),
                                     [expires_at |->
                                          IF Has(license_data, "duration_days")
                                          THEN t + license_data.duration_days * TicksPerDay
                                          ELSE 0])
                              @@ Opt(Has(license_data, "instance_fingerprint"),
                                     [instance_fingerprint |->
                                          IF Has(license_data, "instance_fingerprint")
                                          THEN license_data.instance_fingerprint
                                          ELSE << >>])
                          audit_log ==
                              [license_id |-> license_id, event_type |-> "issued",
                               customer_id |-> customer.id,
                               module_name |-> license_data.module_name]
                      IN  [status |-> HTTP_201_CREATED,
                           db |-> [database EXCEPT
                                       !.licenses = @ \cup {db_license},
                                       !.audit_logs = @ (+) SetToBag({audit_log})],
                           service |-> g.service, reads |-> g.reads,
                           drawn |-> TRUE, token |-> r.token, request |-> rq]

(* Mutant: an already revoked license is revoked again *)
revoke_license_NoConflict(database, service, license_id, revoke_data, t) ==
    LET license_uuid == UUID(license_id)
        found == RowsWithId(database.licenses, license_uuid)
    IN  IF ~IsUuidText(license_id)
        THEN Response(HTTP_422_UNPROCESSABLE_ENTITY, database, service)
        ELSE IF found = {}
        THEN Response(HTTP_404_NOT_FOUND, database, service)
        ELSE LET license_obj == TheRow(found)
                 revoked ==
                     [f \in DOMAIN license_obj \ {"status", "revoked_at", "revoked_reason"}
                          |-> license_obj[f]]
                     @@ [status |-> "revoked", revoked_at |-> t,
                         revoked_reason |-> revoke_data.reason]
                 audit_log ==
                     [license_id |-> license_uuid, event_type |-> "revoked",
                      customer_id |-> license_obj.customer_id,
                      module_name |-> license_obj.module_name]
             IN  Response(HTTP_200_OK,
                     [database EXCEPT
                          !.licenses = (@ \ found) \cup {revoked},
                          !.audit_logs = @ (+) SetToBag({audit_log})],
                     service)

(* The endpoint revoke_license; license_id is the text of the path *)
revoke_license(database, service, license_id, revoke_data, t) ==
    LET license_uuid == UUID(license_id)
        found == RowsWithId(database.licenses, license_uuid)
    IN  IF ~IsUuidText(license_id)
        THEN Response(HTTP_422_UNPROCESSABLE_ENTITY, database, service)
        ELSE IF found = {}
        THEN Response(HTTP_404_NOT_FOUND, database, service)
        ELSE LET license_obj == TheRow(found)
             IN  IF license_obj.status = "revoked"
                 THEN Response(HTTP_409_CONFLICT, database, service)
                 ELSE LET revoked ==
                              [f \in DOMAIN license_obj \ {"status"} |-> license_obj[f]]
                              @@ [status |-> "revoked", revoked_at |-> t,
                                  revoked_reason |-> revoke_data.reason]
                          audit_log ==
                              [license_id |-> license_uuid, event_type |-> "revoked",
                               customer_id |-> license_obj.customer_id,
                               module_name |-> license_obj.module_name]
                      IN  Response(HTTP_200_OK,
                              [database EXCEPT
                                   !.licenses = (@ \ found) \cup {revoked},
                                   !.audit_logs = @ (+) SetToBag({audit_log})],
                              service)

Invalid(error) == [valid |-> FALSE, error |-> error]

(* `except Exception`: "Validation error: ..." *)
ValidationError(exc) == [valid |-> FALSE, error |-> "Validation error", detail |-> exc]

(* Mutant: the stored status is looked up before the token is checked *)
validate_checks_RevokedFirst(database, payload, illtyped, validation, t) ==
    LET found == RowsWithId(database.licenses, UUID(payload.jti))
    IN  IF found # {} /\ TheRow(found).status = "revoked"
        THEN Invalid("License has been revoked")
        ELSE IF ModuleMismatch(payload, validation.module_name)
        THEN Invalid("License is for another module")
        ELSE IF VersionNotAllowed(payload, validation.odoo_version)
        THEN Invalid("Odoo version not allowed")
        ELSE IF Has(payload, "exp") /\ payload.exp # 0
                /\ t >= payload.exp * TicksPerSecond
        THEN Invalid("License has expired")
        ELSE IF Truthy(payload, "instance_fingerprint") /\ ContextMissing(validation)
        THEN Invalid("Instance details not provided")
        ELSE IF Truthy(payload, "instance_fingerprint")
                /\ payload.instance_fingerprint #
                      LicenseService_generate_instance_fingerprint(validation.instance_db_uuid,
                                                    validation.instance_domain)
        THEN Invalid("Instance fingerprint mismatch")
        ELSE [valid |-> TRUE, error |-> "none"]

(* The body of validate_license after the signature check: module,         *)
(* version, expiry (`if exp:`), instance binding (`if instance_fp:`), then *)
(* the lookup of the stored license by UUID(jti), which raises ValueError  *)
(* for a jti that is no UUID text, and its status.                         *)
validate_checks(database, payload, illtyped, validation, t) ==
    IF ModuleAttributeError(payload, illtyped)
    THEN ValidationError("AttributeError")
    ELSE IF ModuleMismatch(payload, validation.module_name)
    THEN Invalid("License is for another module")
    ELSE IF VersionsTypeError(payload, illtyped)
    THEN ValidationError("TypeError")
    ELSE IF VersionNotAllowed(payload, validation.odoo_version)
    THEN Invalid("Odoo version not allowed")
    ELSE IF ExpTypeError(payload, illtyped)
    THEN ValidationError("TypeError")
    ELSE IF Has(payload, "exp") /\ payload.exp # 0
            /\ t >= payload.exp * TicksPerSecond
    THEN Invalid("License has expired")
    ELSE IF Truthy(payload, "instance_fingerprint") /\ ContextMissing(validation)
    THEN Invalid("Instance details not provided")
    ELSE IF Truthy(payload, "instance_fingerprint")
            /\ payload.instance_fingerprint #
                  LicenseService_generate_instance_fingerprint(validation.instance_db_uuid,
                                                validation.instance_domain)
    THEN Invalid("Instance fingerprint mismatch")
    ELSE IF ~IsUuidText(payload.jti)
    THEN ValidationError("ValueError")
    ELSE LET found == RowsWithId(database.licenses, UUID(payload.jti))
         IN  IF found # {} /\ TheRow(found).status = "revoked"
             THEN Invalid("License has been revoked")
             ELSE [valid |-> TRUE, error |-> "none"]

(* The endpoint validate_license: answered 200 with valid and error in the *)
(* body, except when get_license_service() raises, which is outside the    *)
(* try block: that request is answered 500, which says nothing is valid.   *)
validate_license(database, service, fs, validation, t) ==
    LET g == get_license_service(service, fs)
        r == LicenseService_verify_license(g.service, validation.token, fs)
        body == IF ~r.ok
                THEN ValidationError(r.error)
                ELSE validate_checks(database, r.payload, r.illtyped, validation, t)
    IN  IF g.exc # "none"
        THEN [status |-> HTTP_500_INTERNAL_SERVER_ERROR, db |-> database,
              service |-> g.service, reads |-> g.reads,
              body |-> Invalid("Internal Server Error")]
        ELSE [status |-> HTTP_200_OK, db |-> database, service |-> g.service,
              reads |-> g.reads \o r.reads, body |-> body]

-----------------------------------------------------------------------------
(* Inspection: decoding without verification *)

(* Mutant: the decoding for display checks the signature all the same *)
jwt_decode_unverified_Checked(token) ==
    IF token.form # "jws"
    THEN [exc |-> "DecodeError"]
    ELSE IF ~token.payload.b64ok \/ token.sig.short
    THEN [exc |-> "DecodeError"]
    ELSE IF base64url_decode(token.sig) #
              Sign(TheVerifier.public_key, token.header, token.payload)
    THEN [exc |-> "InvalidSignatureError"]
    ELSE [exc |-> "none", payload |-> token.payload.claims,
          illtyped |-> IllTyped(token.payload)]

(* jwt.decode(token, options={"verify_signature": False}): the segments    *)
(* are split and decoded; no key, no signature check, no required claims,  *)
(* and no validation of exp, nbf, iat, aud or iss.                         *)
jwt_decode_unverified(token) ==
    IF token.form # "jws"
    THEN [exc |-> "DecodeError"]
    ELSE IF ~token.payload.b64ok \/ token.sig.short
    THEN [exc |-> "DecodeError"]
    ELSE [exc |-> "none", payload |-> token.payload.claims,
          illtyped |-> IllTyped(token.payload)]

(* LicenseIssuer.decode_license(token, verify): with verify=True jwt.decode *)
(* is called without algorithms and raises DecodeError; the exception of   *)
(* jwt.decode is not caught.                                               *)
decode_license(self, token, verify) ==
    IF verify
    THEN [ok |-> FALSE, error |-> "DecodeError"]
    ELSE LET d == jwt_decode_unverified(token)
         IN  IF d.exc # "none"
             THEN [ok |-> FALSE, error |-> d.exc]
             ELSE [ok |-> TRUE, error |-> "none", claims |-> d.payload]

(* datetime.fromtimestamp(ts, tz=utc).isoformat(): the text of the UTC     *)
(* date and time ts seconds after the epoch.                               *)
_format_timestamp(ts) == [utc_text_of |-> ts]

(* LicenseVerifier.get_license_info: a key that payload.get() finds absent *)
(* gives None, here a field that is absent from info.  An exp that is no   *)
(* number makes _format_timestamp raise, which `except Exception` turns    *)
(* into the error result like a failure of jwt.decode.                     *)
get_license_info(self, license_token) ==
    LET d == jwt_decode_unverified(license_token)
    IN  IF d.exc # "none"
        THEN [ok |-> FALSE, error |-> "Failed to decode license"]
        ELSE IF Has(d.payload, "exp") /\ "exp" \in d.illtyped
        THEN [ok |-> FALSE, error |-> "Failed to decode license"]
        ELSE LET payload == d.payload
             IN  [ok |-> TRUE, error |-> "none",
                  info |->
                      [customer |-> IF Has(payload, "customer")
                                    THEN payload.customer ELSE << >>,
                       module |-> module_info(payload),
                       is_bound |-> Has(payload, "instance_fingerprint")]
                      @@ Opt(Has(payload, "jti"),
                             [license_id |-> IF Has(payload, "jti")
                                             THEN payload.jti ELSE ""])
                      @@ Opt(Has(payload, "license_type"),
                             [license_type |-> IF Has(payload, "license_type")
                                               THEN payload.license_type ELSE ""])
                      @@ Opt(Has(payload, "iat"),
                             [issued_at |-> _format_timestamp(
                                  IF Has(payload, "iat") THEN payload.iat ELSE 0)])
                      @@ Opt(Has(payload, "exp"),
                             [expires_at |-> _format_timestamp(
                                  IF Has(payload, "exp") THEN payload.exp ELSE 0)])]

-----------------------------------------------------------------------------
(* Odoo client: the aegis.license model and the module it protects *)

(* odoo.release.major_version of the installation *)
major_version == "17"

(* ir.config_parameter: database.uuid and web.base.url of the instance,    *)
(* the URL as urlparse splits it                                           *)
config ==
    [database_uuid |-> <<"a">>,
     web_base_url |-> [scheme |-> "https", netloc |-> <<"a">>,
                       text |-> <<"https://", "a">>]]

(* AegisLicense._get_expected_issuer: the default of get_param *)
_get_expected_issuer == Issuer

_normalize_domain(value) ==
    IF value.scheme # "" /\ value.netloc # << >> THEN value.netloc ELSE value.text

(* AegisLicense._resolve_instance_context: an id or a domain that is not   *)
(* given is taken from the configuration                                   *)
_resolve_instance_context(args) ==
    [instance_db_uuid |-> IF Truthy(args, "instance_db_uuid")
                          THEN args.instance_db_uuid
                          ELSE config.database_uuid,
     instance_domain |-> IF Truthy(args, "instance_domain")
                         THEN args.instance_domain
                         ELSE _normalize_domain(config.web_base_url)]

(* LET x == value IN Body(x), with the value computed once *)
Bind(value, Body(_)) == CHOOSE y \in {Body(x) : x \in {value}} : TRUE

(* A new aegis.license record: state has its default, the other fields are *)
(* not set                                                                 *)
NewLicenseRecord(module_name, license_token) ==
    [module_name |-> module_name, license_token |-> license_token,
     state |-> "unknown"]

(* The fields _verify_and_update caches from an accepted token *)
CachedFields ==
    {"license_type", "issued_at", "expires_at", "is_bound", "customer_name",
     "allowed_versions"}

(* record.write(vals) for vals that give every field of written: a field   *)
(* whose value is None or False is absent from the record                  *)
write(record, written, vals) ==
    [f \in DOMAIN record \ written |-> record[f]] @@ vals

(* AegisLicense._verify_and_update on the record self.  The client's       *)
(* LicenseVerifier is the POC's, method by method.  call tells what became *)
(* of the call of verify_license: "none" when the verifier could not be    *)
(* constructed, "escaped" when an exception other than                     *)
(* LicenseVerificationError left it; exc is the exception that leaves      *)
(* _verify_and_update.                                                     *)
_verify_and_update(self, fs, args, t) ==
    LET made == LicenseVerifier_init(fs, _get_public_key_path, _get_expected_issuer)
        odoo_version == IF Has(args, "odoo_version") /\ args.odoo_version # ""
                        THEN args.odoo_version ELSE major_version
        call_args == [module_name |-> self.module_name,
                      odoo_version |-> odoo_version]
                     @@ _resolve_instance_context(args)
    IN  IF made.exc # "none"
        THEN [exc |-> made.exc, record |-> self,
              report |-> [call |-> "none", error |-> made.exc,
                          call_args |-> call_args]]
        ELSE LET verifier == made.instance
             IN  Bind(verify_license(verifier, self.license_token, call_args, t),
                 LAMBDA r :
                 IF Has(r, "escaped")
                 THEN [exc |-> r.error, record |-> self,
                       report |-> [call |-> "escaped", error |-> r.error,
                                   call_args |-> call_args]]
                 ELSE IF ~r.ok
                 THEN [exc |-> "none",
                       report |-> [call |-> "rejected", error |-> r.error,
                                   call_args |-> call_args],
                       record |->
                           write(self, {"state", "last_verified_at", "last_error"},
                                 [state |-> "invalid", last_verified_at |-> t,
                                  last_error |-> r.error])]
                 ELSE LET payload == r.claims
                          got == get_license_info(verifier, self.license_token)
                          info == IF got.ok THEN got.info ELSE << >>
                          mi == module_info(payload)
                      IN  [exc |-> "none",
                           report |-> [call |-> "accepted", error |-> "none",
                                       call_args |-> call_args],
                           record |->
                               write(self,
                                     {"state", "last_verified_at", "last_error"}
                                         \cup CachedFields,
                                     [state |-> "valid", last_verified_at |-> t,
                                      is_bound |-> Has(info, "is_bound") /\ info.is_bound,
                                      allowed_versions |->
                                          [joined |->
                                               IF Has(mi, "allowed_major_versions")
                                               THEN mi.allowed_major_versions
                                               ELSE {}]]
                                     @@ Opt(Has(payload, "license_type"),
                                            [license_type |->
                                                 IF Has(payload, "license_type")
                                                 THEN payload.license_type ELSE ""])
                                     @@ Opt(Has(info, "issued_at"),
                                            [issued_at |->
                                                 IF Has(info, "issued_at")
                                                 THEN info.issued_at ELSE << >>])
                                     @@ Opt(Has(info, "expires_at"),
                                            [expires_at |->
                                                 IF Has(info, "expires_at")
                                                 THEN info.expires_at ELSE << >>])
                                     @@ Opt(Has(payload, "customer")
                                                /\ Has(payload.customer, "name"),
                                            [customer_name |->
                                                 IF Has(payload, "customer")
                                                    /\ Has(payload.customer, "name")
                                                 THEN payload.customer.name ELSE ""]))])

(* The outcome of a method of the model: the table after it and, in        *)
(* answer, the exception raised ("none" when it returns), the record found *)
(* and what became of verify_license                                       *)
Outcome(raised, table, found, report) ==
    [table |-> table,
     answer |-> [raised |-> raised, returned |-> raised = "none",
                 had_record |-> found # {}]
                @@ report
                @@ Opt(found # {},
                       [before |-> IF found # {} THEN TheRow(found) ELSE << >>])]

NotVerified == [call |-> "none", error |-> "none"]

(* Mutant: the gate does not look at the state after the verification *)
action_views_open_AnyState(table, fs, module_name, args, t) ==
    LET found == {r \in table : r.module_name = module_name}
    IN  IF found = {}
        THEN Outcome("UserError", table, found, NotVerified)
        ELSE Bind(_verify_and_update(TheRow(found), fs, args, t),
                  LAMBDA v :
                  LET after == (table \ found) \cup {v.record}
                  IN  IF v.exc # "none"
                      THEN Outcome(v.exc, after, found, v.report)
                      ELSE Outcome("none", after, found, v.report))

(* AegisLicense.action_views_open: the gate of the protected modules *)
action_views_open(table, fs, module_name, args, t) ==
    LET found == {r \in table : r.module_name = module_name}
    IN  IF found = {}
        THEN Outcome("UserError", table, found, NotVerified)
        ELSE Bind(_verify_and_update(TheRow(found), fs, args, t),
                  LAMBDA v :
                  LET after == (table \ found) \cup {v.record}
                  IN  IF v.exc # "none"
                      THEN Outcome(v.exc, after, found, v.report)
                      ELSE IF v.record.state # "valid"
                      THEN Outcome("UserError", after, found, v.report)
                      ELSE Outcome("none", after, found, v.report))

(* AegisLicense.action_verify on the record of the module *)
action_verify(table, fs, module_name, t) ==
    LET found == {r \in table : r.module_name = module_name}
    IN  Bind(_verify_and_update(TheRow(found), fs, << >>, t),
             LAMBDA v :
             LET after == (table \ found) \cup {v.record}
             IN  IF v.exc # "none"
                 THEN Outcome(v.exc, after, found, v.report)
                 ELSE IF v.record.state # "valid"
                 THEN Outcome("UserError", after, found, v.report)
                 ELSE Outcome("none", after, found, v.report))

(* AegisHello.action_say_hello: past the gate the greeting is shown, as a   *)
(* UserError; proceeded tells that the gate was passed.                    *)
action_say_hello(table, fs, t) ==
    Bind(action_views_open(table, fs, "aegis_hello", << >>, t),
         LAMBDA gate :
         [table |-> gate.table,
          answer |-> IF gate.answer.returned
                     THEN [raised |-> "UserError", returned |-> FALSE,
                           proceeded |-> TRUE] @@ gate.answer
                     ELSE [proceeded |-> FALSE] @@ gate.answer])

-----------------------------------------------------------------------------
(* Inputs of the operations *)

DurationOpts == {<< >>} \cup {[duration_days |-> n] : n \in Durations}

FingerprintOpts(fps) == {<< >>} \cup {[instance_fingerprint |-> x] : x \in fps}

Requests(mods, lists, types, fps) ==
    {[customer_id |-> Customer.id, customer_name |-> Customer.name,
      module_name |-> m, allowed_versions |-> a, license_type |-> ty] @@ d @@ f :
        m \in mods, a \in lists, ty \in types,
        d \in DurationOpts, f \in FingerprintOpts(fps)}

Contexts(ids, domains) ==
    {u @@ d : u \in {<< >>} \cup {[instance_db_uuid |-> x] : x \in ids},
              d \in {<< >>} \cup {[instance_domain |-> x] : x \in domains}}

VerifyArgs(mods, vers, ctxs) ==
    {[module_name |-> m, odoo_version |-> v] @@ c :
        m \in mods, v \in vers, c \in ctxs}

(* The instance the licenses of the main specification are bound to *)
CoreInstance == <<(<<"a">>), (<<"a">>)>>

CoreFingerprint == generate_instance_fingerprint(CoreInstance[1], CoreInstance[2])

CoreRequests ==
    Requests(Modules, AllowedVersionLists, TypeInputs, {<< >>, CoreFingerprint})

CoreArgs ==
    VerifyArgs(Modules, Versions,
        {<< >>,
         [instance_db_uuid |-> CoreInstance[1]],
         [instance_db_uuid |-> CoreInstance[1], instance_domain |-> CoreInstance[2]],
         [instance_db_uuid |-> <<":">>, instance_domain |-> CoreInstance[2]]})

(* Requests and arguments of the tampering specification *)
TamperRequests ==
    Requests({"payroll"}, {{"17"}}, {"perpetual", "subscription"}, {CoreFingerprint})

(* Requests and arguments of the binding specification: licenses bound to  *)
(* every pair of strings and licenses that are not bound, verified in      *)
(* every context.                                                          *)
BindingFingerprints == {generate_instance_fingerprint(u, d) : u \in Strs, d \in Strs}

BindingRequests ==
    {[customer_id |-> Customer.id, customer_name |-> Customer.name,
      module_name |-> "payroll", allowed_versions |-> {"17"},
      license_type |-> "perpetual"] @@ f :
        f \in FingerprintOpts(BindingFingerprints \cup {<< >>})}

BindingArgs == VerifyArgs(Modules, Versions, Contexts(Strs, Strs))

(* Signed demo claim sets without exp, with or without an                  *)
(* instance_fingerprint claim, which may be empty.                         *)
DemoClaimsWithoutExp(t) ==
    {[jti |-> HandMadeId, iss |-> Issuer, iat |-> Timestamp(t),
      customer |-> Customer,
      module |-> [technical_name |-> "payroll", allowed_major_versions |-> {"17"}],
      license_type |-> "demo"] @@ f :
        f \in FingerprintOpts(BindingFingerprints \cup {<< >>})}

(* Hand-made claim sets, signed like a license: each lacks at most one of  *)
(* the required claims and may lack exp, whatever its license_type.        *)
ForgedClaims(t) ==
    {[k \in (DOMAIN c) \ drop |-> c[k]] :
        c \in {[jti |-> HandMadeId, iss |-> i, iat |-> Timestamp(t),
                customer |-> Customer,
                module |-> [technical_name |-> "payroll",
                            allowed_major_versions |-> {"17"}],
                license_type |-> ty] @@ e @@ f :
                  i \in {Issuer, OtherIssuer},
                  ty \in {"perpetual", "demo"},
                  e \in {<< >>, [exp |-> Timestamp(t)],
                         [exp |-> Timestamp(t) + SecondsPerDay]},
                  f \in FingerprintOpts({<< >>, CoreFingerprint})},
        drop \in {{}} \cup {{r} : r \in RequiredClaims}}

MalformedTokens == {EmptyToken, NotAJwt, TwoPartToken}

(* Hand-made claim sets for tokens with ill-typed claims, and the sets of  *)
(* claims that are given a value of the wrong type.                        *)
TypedClaims(t) ==
    {[jti |-> HandMadeId, iss |-> i, iat |-> Timestamp(t),
      customer |-> Customer,
      module |-> [technical_name |-> "payroll", allowed_major_versions |-> {"17"}],
      license_type |-> ty] @@ e :
        i \in {Issuer, OtherIssuer},
        ty \in {"perpetual", "demo"},
        e \in {<< >>, [exp |-> Timestamp(t) + SecondsPerDay]}}

IllTypings == (SUBSET {"exp", "module", "allowed_major_versions"}) \ {{}}

(* Request bodies of the server's endpoints *)
CustomerIds == {Customer.id}

CustomerCreates == {[id |-> c, name |-> Customer.name] : c \in CustomerIds}

CustomerUpdates == {[is_active |-> FALSE], [is_active |-> TRUE]}

LicenseCreates(lists, types, durations, fps) ==
    {[customer_id |-> c, module_name |-> "payroll",
      allowed_major_versions |-> a, license_type |-> ty] @@ d @@ f :
        c \in CustomerIds, a \in lists, ty \in types,
        d \in {<< >>} \cup {[duration_days |-> n] : n \in durations},
        f \in FingerprintOpts(fps)}

(* The license the server specification follows, and the licenses issued   *)
(* besides it.                                                             *)
FollowedCreates ==
    LicenseCreates({{"17"}}, {"perpetual", "subscription"}, {1}, {CoreFingerprint})

OtherCreates == LicenseCreates({{"17"}}, {"perpetual"}, {}, {})

(* The bodies of the issuance specification *)
IssuanceCreates ==
    LicenseCreates({{}, {"17"}}, TypeInputs, 0 .. MaxDuration, {CoreFingerprint})

IssuanceRequests ==
    Requests({"payroll"}, {{"17"}}, valid_types, {CoreFingerprint})

ServerArgs ==
    VerifyArgs(Modules, {"16", "17"},
        {<< >>,
         [instance_db_uuid |-> CoreInstance[1], instance_domain |-> CoreInstance[2]],
         [instance_db_uuid |-> <<":">>, instance_domain |-> CoreInstance[2]]})

(* The token in hand as it was issued, signed anew by another key pair,    *)
(* and signed by the server's key pair in the name of another issuer.      *)
ValidateTokens(t) ==
    {t}
    \cup (IF t.form = "jws"
          THEN {jwt_encode(t.payload.claims, "other", t.header.kid)}
          ELSE {})
    \cup (IF t.form = "jws" /\ Has(t.payload.claims, "iss")
          THEN {jwt_encode([t.payload.claims EXCEPT !.iss = OtherIssuer],
                           TheService.private_key, t.header.kid)}
          ELSE {})

RevokeReasons == {<<"r">>}

(* The license_id of the path: the text of a UUID, or some other text *)
RevokeIds == {str(u) : u \in UuidPool} \cup {NotAUuid}

NoReq == [none |-> TRUE]
NoRes == [op |-> "none"]

(* The tables of the database, each a set of rows, before any request *)
EmptyDb == [customers |-> {}, licenses |-> {}, audit_logs |-> EmptyBag]

-----------------------------------------------------------------------------
(* State machine *)

Init ==
    /\ now = 0
    /\ tok = NoToken
    /\ req = NoReq
    /\ origin = "none"
    /\ res = NoRes
    /\ db = EmptyDb
    /\ _license_service = NotConstructed
    /\ uuids = {}
    /\ files = DeployedFiles
    /\ components = [issuer |-> NotConstructed, verifier |-> NotConstructed]
    /\ sessions = << >>
    /\ aegis_license = {}

(* The wall clock advances; a behaviour is followed up to the call of      *)
(* verify_license and the clock up to the instant of that call.            *)
Tick ==
    /\ res.op # "verify"
    /\ \E t \in Instants : t > now /\ now' = t
    /\ UNCHANGED <<tok, req, origin, res>>
    /\ UNCHANGED server
    /\ UNCHANGED host
    /\ UNCHANGED clients

IssueResult(by, rq, r) ==
    /\ req' = rq
    /\ tok' = IF r.ok THEN r.token ELSE NoToken
    /\ origin' = IF r.ok THEN "issued" ELSE "rejected"
    /\ res' = [op |-> "issue", by |-> by, ok |-> r.ok, error |-> r.error, at |-> now]
    /\ UNCHANGED now
    /\ UNCHANGED server
    /\ UNCHANGED host
    /\ UNCHANGED clients

(* A call of LicenseIssuer.issue_license with a request of reqs.  The      *)
(* model follows one token at a time: it is issued or made once, then      *)
(* verified.                                                               *)
Issue(reqs) ==
    /\ origin = "none"
    /\ \E rq \in reqs, id \in LicenseIds :
           IssueResult("poc", rq, issue_license(TheIssuer, rq, id, now))

(* A call of LicenseService.issue_license with a request of reqs *)
ServiceIssue(reqs) ==
    /\ origin = "none"
    /\ \E rq \in reqs, id \in LicenseIds :
           IssueResult("service", rq, LicenseService_issue_license(TheService, id, rq, now))

(* Somebody holding a private key of keys signs a hand-made claim set *)
Forge(claimsets, keys) ==
    /\ origin = "none"
    /\ \E c \in claimsets, k \in keys :
           tok' = jwt_encode(c, k, TheIssuer.key_id)
    /\ req' = NoReq
    /\ origin' = "forged"
    /\ res' = NoRes
    /\ UNCHANGED now
    /\ UNCHANGED server
    /\ UNCHANGED host
    /\ UNCHANGED clients

(* Somebody holding a private key of keys signs a claim set in which some  *)
(* claims have a value of the wrong type.                                  *)
ForgeIllTyped(claimsets, keys) ==
    /\ origin = "none"
    /\ \E c \in claimsets, bad \in IllTypings, k \in keys :
           tok' = jwt_encode_json(c, bad, k, TheIssuer.key_id)
    /\ req' = NoReq
    /\ origin' = "forged"
    /\ res' = NoRes
    /\ UNCHANGED now
    /\ UNCHANGED server
    /\ UNCHANGED host
    /\ UNCHANGED clients

(* What can be made of the payload segment of a token: its claims altered  *)
PayloadEdits(c) ==
    ({[k \in (DOMAIN c) \ {"exp"} |-> c[k]]}
     \cup {[c EXCEPT !.module.technical_name = m] : m \in Modules}
     \cup {[c EXCEPT !.module.allowed_major_versions = Versions]}
     \cup {[c EXCEPT !.license_type = "perpetual"]}) \ {c}

(* The values of the last character of the signature segment *)
LastChars == 0 .. (2 * (SlackMax + 1) - 1)

(* The strings obtained from token t by changing its payload segment or    *)
(* its signature segment, and the strings that are no token at all.        *)
Tamperings(t) ==
    ({[t EXCEPT !.payload.claims = c] : c \in PayloadEdits(t.payload.claims)}
     \cup {[t EXCEPT !.payload.b64ok = FALSE]}
     \cup {[t EXCEPT !.sig.last = k] : k \in LastChars}
     \cup {[t EXCEPT !.sig.short = TRUE]}
     \cup {[t EXCEPT !.sig.head = <<"TAMPERED">>]}
     \cup MalformedTokens) \ {t}

(* The issued token is changed on its way to the verifier *)
Tamper ==
    /\ origin = "issued"
    /\ tok' \in Tamperings(tok)
    /\ origin' = "tampered"
    /\ res' = NoRes
    /\ UNCHANGED <<now, req>>
    /\ UNCHANGED server
    /\ UNCHANGED host
    /\ UNCHANGED clients

(* A string that is not a token is presented *)
Malformed ==
    /\ origin = "none"
    /\ tok' \in MalformedTokens
    /\ req' = NoReq
    /\ origin' = "malformed"
    /\ res' = NoRes
    /\ UNCHANGED now
    /\ UNCHANGED server
    /\ UNCHANGED host
    /\ UNCHANGED clients

(* A call of verify_license of the verifier self on the token in hand,     *)
(* with arguments of argset.                                               *)
VerifyWith(self, argset) ==
    /\ tok # NoToken
    /\ \E args \in argset :
           LET r == verify_license(self, tok, args, now)
           IN  res' = [op |-> "verify", ok |-> r.ok, error |-> r.error,
                       args |-> args, at |-> now]
                      @@ Opt(r.ok, [claims |-> IF r.ok THEN r.claims ELSE << >>])
                      @@ Opt(Has(r, "escaped"), [escaped |-> TRUE])
    /\ UNCHANGED <<now, tok, req, origin>>
    /\ UNCHANGED server
    /\ UNCHANGED host
    /\ UNCHANGED clients

(* A call of LicenseVerifier.verify_license of the verifier constructed    *)
(* from the deployed public key                                            *)
Verify(argset) == VerifyWith(TheVerifier, argset)

(* The verification of the token in hand.  verify_license changes nothing, *)
(* so each call is followed as the only one of its behaviour.              *)
VerifyOnce(argset) ==
    /\ res.op # "verify"
    /\ Verify(argset)

(* The token in hand is decoded for display, by the verifier's             *)
(* get_license_info or by the issuer's decode_license; after keeps the     *)
(* result of the call before it.                                           *)
Inspect ==
    /\ tok # NoToken
    /\ res.op # "inspect"
    /\ \/ LET r == get_license_info(TheVerifier, tok)
          IN  res' = [op |-> "inspect", by |-> "get_license_info", ok |-> r.ok,
                      error |-> r.error, after |-> res]
                     @@ Opt(r.ok, [info |-> IF r.ok THEN r.info ELSE << >>])
       \/ LET r == decode_license(TheIssuer, tok, FALSE)
          IN  res' = [op |-> "inspect", by |-> "decode_license", ok |-> r.ok,
                      error |-> r.error, after |-> res]
                     @@ Opt(r.ok, [claims |-> IF r.ok THEN r.claims ELSE << >>])
    /\ UNCHANGED <<now, tok, req, origin>>
    /\ UNCHANGED server
    /\ UNCHANGED host
    /\ UNCHANGED clients

(* A call of LicenseService.verify_license on the token in hand *)
ServiceVerify ==
    /\ tok # NoToken
    /\ res.op \notin {"verify", "service_verify"}
    /\ LET r == LicenseService_verify_license(TheService, tok, files)
       IN  res' = [op |-> "service_verify", ok |-> r.ok, error |-> r.error,
                   reads |-> r.reads, at |-> now]
                  @@ Opt(Has(r, "escaped"), [escaped |-> TRUE])
    /\ UNCHANGED <<now, tok, req, origin>>
    /\ UNCHANGED server
    /\ UNCHANGED host
    /\ UNCHANGED clients

(* The server answers requests until the token in hand is validated or    *)
(* verified: that call is followed as the last of its behaviour.           *)
Serving == res.op \notin {"validate", "verify"}

(* uuid4(): a value that was not drawn before; the least one left stands   *)
(* for any of them.                                                        *)
uuid4 == CHOOSE u \in UuidPool \ uuids : \A v \in UuidPool \ uuids : u <= v

ApiCreateCustomer ==
    /\ Serving
    /\ \E customer \in CustomerCreates :
           LET r == create_customer(db, _license_service, customer)
           IN  /\ db' = r.db
               /\ _license_service' = r.service
               /\ res' = [op |-> "create_customer", status |-> r.status]
    /\ UNCHANGED <<now, tok, req, origin, uuids>>
    /\ UNCHANGED host
    /\ UNCHANGED clients

ApiUpdateCustomer ==
    /\ Serving
    /\ \E id \in CustomerIds, customer_update \in CustomerUpdates :
           LET r == update_customer(db, _license_service, id, customer_update)
           IN  /\ db' = r.db
               /\ _license_service' = r.service
               /\ res' = [op |-> "update_customer", status |-> r.status]
    /\ UNCHANGED <<now, tok, req, origin, uuids>>
    /\ UNCHANGED host
    /\ UNCHANGED clients

ApiDeleteCustomer ==
    /\ Serving
    /\ \E id \in CustomerIds :
           LET r == delete_customer(db, _license_service, id)
           IN  /\ db' = r.db
               /\ _license_service' = r.service
               /\ res' = [op |-> "delete_customer", status |-> r.status]
    /\ UNCHANGED <<now, tok, req, origin, uuids>>
    /\ UNCHANGED host
    /\ UNCHANGED clients

(* POST /licenses with a body of firsts while no token is in hand, of      *)
(* others afterwards; the first license issued is the one in hand.         *)
ApiIssue(firsts, others) ==
    /\ Serving
    /\ uuids # UuidPool
    /\ \E license_data \in (IF origin = "none" THEN firsts ELSE others) :
           LET r == api_issue_license(db, _license_service, files, license_data,
                                      uuid4, now)
               followed == r.status = HTTP_201_CREATED /\ origin = "none"
           IN  /\ db' = r.db
               /\ _license_service' = r.service
               /\ uuids' = IF r.drawn THEN uuids \cup {uuid4} ELSE uuids
               /\ res' = [op |-> "api_issue", status |-> r.status,
                           license_data |-> license_data, reads |-> r.reads,
                           at |-> now]
               /\ tok' = IF followed THEN r.token ELSE tok
               /\ req' = IF followed THEN r.request ELSE req
               /\ origin' = IF followed THEN "issued" ELSE origin
    /\ UNCHANGED now
    /\ UNCHANGED host
    /\ UNCHANGED clients

(* DELETE /licenses/{license_id}/revoke; origin tells that the license of  *)
(* the token in hand has been revoked.                                     *)
ApiRevoke ==
    /\ Serving
    /\ \E license_id \in RevokeIds, reason \in RevokeReasons :
           LET r == revoke_license(db, _license_service, license_id,
                                   [reason |-> reason], now)
               mine == /\ r.status = HTTP_200_OK
                       /\ tok # NoToken
                       /\ tok.payload.claims.jti = license_id
           IN  /\ db' = r.db
               /\ _license_service' = r.service
               /\ res' = [op |-> "revoke", status |-> r.status,
                           license_id |-> license_id, reason |-> reason]
               /\ origin' = IF mine THEN "revoked" ELSE origin
    /\ UNCHANGED <<now, tok, req, uuids>>
    /\ UNCHANGED host
    /\ UNCHANGED clients

(* revoke_license step by step, as the event loop interleaves requests:    *)
(* each request has the AsyncSession get_db opened for it, and gives way   *)
(* to other requests at `await db.execute(...)` and at `await db.commit()`.*)

(* The request is received and the license_id of the path is parsed *)
RevokeReceive(ids) ==
    /\ Serving
    /\ Len(sessions) < MaxRequests
    /\ \E license_id \in ids, reason \in RevokeReasons :
           sessions' = Append(sessions,
               IF IsUuidText(license_id)
               THEN [pc |-> "select", license_id |-> license_id, reason |-> reason]
               ELSE [pc |-> "done", license_id |-> license_id, reason |-> reason,
                     status |-> HTTP_422_UNPROCESSABLE_ENTITY])
    /\ UNCHANGED <<now, tok, req, origin, res, aegis_license>>
    /\ UNCHANGED server
    /\ UNCHANGED host

(* The request's session reads the license row and checks it; for a        *)
(* license that can be revoked the changes wait in the session for the     *)
(* commit.                                                                 *)
RevokeSelect(i) ==
    /\ i \in DOMAIN sessions
    /\ sessions[i].pc = "select"
    /\ LET request == sessions[i]
           found == RowsWithId(db.licenses, UUID(request.license_id))
           answer(code) == [pc |-> "done", license_id |-> request.license_id,
                            reason |-> request.reason, status |-> code]
       IN  sessions' = [sessions EXCEPT ![i] =
               IF found = {}
               THEN answer(HTTP_404_NOT_FOUND)
               ELSE IF TheRow(found).status = "revoked"
               THEN answer(HTTP_409_CONFLICT)
               ELSE [pc |-> "commit", license_id |-> request.license_id,
                     reason |-> request.reason, license_obj |-> TheRow(found),
                     revoked_at |-> now]]
    /\ UNCHANGED <<now, tok, req, origin, res, aegis_license>>
    /\ UNCHANGED server
    /\ UNCHANGED host

(* `await db.commit()`: the session writes the changed columns of its row  *)
(* and the audit entry.  No version column and no lock guards the row, so  *)
(* the UPDATE applies whatever another session committed meanwhile; it     *)
(* fails (StaleDataError, rolled back by get_db) only if the row is gone.  *)
RevokeCommit(i) ==
    /\ i \in DOMAIN sessions
    /\ sessions[i].pc = "commit"
    /\ LET request == sessions[i]
           license_obj == request.license_obj
           found == RowsWithId(db.licenses, license_obj.id)
           answer(code) == [pc |-> "done", license_id |-> request.license_id,
                            reason |-> request.reason, status |-> code]
           row == TheRow(found)
           revoked ==
               [f \in DOMAIN row \ {"status", "revoked_at", "revoked_reason"}
                    |-> row[f]]
               @@ [status |-> "revoked", revoked_at |-> request.revoked_at,
                   revoked_reason |-> request.reason]
           audit_log ==
               [license_id |-> license_obj.id, event_type |-> "revoked",
                customer_id |-> license_obj.customer_id,
                module_name |-> license_obj.module_name]
       IN  IF found = {}
           THEN /\ sessions' = [sessions EXCEPT
                                    ![i] = answer(HTTP_500_INTERNAL_SERVER_ERROR)]
                /\ db' = db
           ELSE /\ sessions' = [sessions EXCEPT ![i] = answer(HTTP_200_OK)]
                /\ db' = [db EXCEPT
                              !.licenses = (@ \ found) \cup {revoked},
                              !.audit_logs = @ (+) SetToBag({audit_log})]
    /\ UNCHANGED <<now, tok, req, origin, res, _license_service, uuids,
                   aegis_license>>
    /\ UNCHANGED host

(* POST /licenses/validate with the token in hand or a variant of it *)
ApiValidate(argset) ==
    /\ Serving
    /\ tok # NoToken
    /\ \E token \in ValidateTokens(tok), args \in argset :
           LET r == validate_license(db, _license_service, files,
                                     [token |-> token] @@ args, now)
           IN  /\ db' = r.db
               /\ _license_service' = r.service
               /\ res' = [op |-> "validate", status |-> r.status,
                           valid |-> r.body.valid,
                           error |-> r.body.error, token |-> token,
                           args |-> args, at |-> now, reads |-> r.reads]
    /\ UNCHANGED <<now, tok, req, origin, uuids>>
    /\ UNCHANGED host
    /\ UNCHANGED clients

(* The client verifies the token in hand with its own verifier *)
ClientVerify(argset) ==
    /\ Serving
    /\ Verify(argset)

(* A day goes by on the server.  The clock is followed from the issuance  *)
(* of the license in hand until that license has expired, and for one day  *)
(* when it does not expire.                                                *)
DayPasses ==
    /\ Serving
    /\ tok # NoToken
    /\ IF Has(tok.payload.claims, "exp")
       THEN now < tok.payload.claims.exp * TicksPerSecond
       ELSE now = 0
    /\ now + TicksPerDay <= MaxDays * TicksPerDay
    /\ now' = now + TicksPerDay
    /\ UNCHANGED <<tok, req, origin, res>>
    /\ UNCHANGED server
    /\ UNCHANGED host
    /\ UNCHANGED clients

(* Time passes after a call of verify_license, before it is retried *)
Elapse ==
    /\ res.op = "verify"
    /\ ~Has(res, "first")
    /\ \E t \in Instants : t > now /\ now' = t
    /\ UNCHANGED <<tok, req, origin, res>>
    /\ UNCHANGED server
    /\ UNCHANGED host
    /\ UNCHANGED clients

(* The same verifier is called again with the same token and the same      *)
(* arguments; first keeps the outcome of the earlier call.                 *)
Retry ==
    /\ res.op = "verify"
    /\ ~Has(res, "first")
    /\ LET r == verify_license(TheVerifier, tok, res.args, now)
       IN  res' = [op |-> "verify", ok |-> r.ok, error |-> r.error,
                   args |-> res.args, at |-> now,
                   first |-> [ok |-> res.ok, error |-> res.error, at |-> res.at]]
                  @@ Opt(r.ok, [claims |-> IF r.ok THEN r.claims ELSE << >>])
                  @@ Opt(Has(r, "escaped"), [escaped |-> TRUE])
    /\ UNCHANGED <<now, tok, req, origin>>
    /\ UNCHANGED server
    /\ UNCHANGED host
    /\ UNCHANGED clients

(* Before anything runs on the host, a key file is replaced by the key of  *)
(* another pair or by a key of another type, or is removed.                *)
InstallKeyFile(paths) ==
    /\ res.op = "none"
    /\ origin = "none"
    /\ \E path \in paths, content \in FileContents :
           files' = [files EXCEPT ![path] = content]
    /\ UNCHANGED <<now, tok, req, origin, res, components>>
    /\ UNCHANGED clients
    /\ UNCHANGED server

(* LicenseIssuer(private_key_path) is called; the name is bound to the     *)
(* instance only when __init__ returns.                                    *)
ConstructIssuer ==
    /\ Serving
    /\ ~components.issuer.constructed
    /\ LET r == LicenseIssuer_init(files, settings.private_key_path, settings.key_id)
       IN  /\ components' = [components EXCEPT
                                 !.issuer = IF r.exc = "none" THEN r.instance ELSE @]
           /\ res' = [op |-> "construct", component |-> "LicenseIssuer",
                       ok |-> r.exc = "none", error |-> r.exc]
    /\ UNCHANGED <<now, tok, req, origin, files>>
    /\ UNCHANGED clients
    /\ UNCHANGED server

(* LicenseVerifier(public_key_path, expected_issuer) is called *)
ConstructVerifier ==
    /\ Serving
    /\ ~components.verifier.constructed
    /\ LET r == LicenseVerifier_init(files, settings.public_key_path, Issuer)
       IN  /\ components' = [components EXCEPT
                                 !.verifier = IF r.exc = "none" THEN r.instance ELSE @]
           /\ res' = [op |-> "construct", component |-> "LicenseVerifier",
                       ok |-> r.exc = "none", error |-> r.exc]
    /\ UNCHANGED <<now, tok, req, origin, files>>
    /\ UNCHANGED clients
    /\ UNCHANGED server

(* issue_license of the LicenseIssuer that was constructed on the host *)
IssueBy(reqs) ==
    /\ origin = "none"
    /\ components.issuer.constructed
    /\ \E rq \in reqs, id \in LicenseIds :
           IssueResult("poc", rq, issue_license(components.issuer, rq, id, now))

(* verify_license of the LicenseVerifier that was constructed on the host *)
VerifyBy(argset) ==
    /\ Serving
    /\ components.verifier.constructed
    /\ VerifyWith(components.verifier, argset)

(* The client's verify_license is called with the token and the arguments *)
(* of the validate request just answered, at the same clock value;         *)
(* validated keeps the answer of the endpoint.                             *)
VerifySame ==
    /\ res.op = "validate"
    /\ LET r == verify_license(TheVerifier, res.token, res.args, res.at)
       IN  res' = [op |-> "verify", ok |-> r.ok, error |-> r.error,
                   args |-> res.args, at |-> res.at,
                   validated |-> [valid |-> res.valid, error |-> res.error,
                                  token |-> res.token]]
                  @@ Opt(r.ok, [claims |-> IF r.ok THEN r.claims ELSE << >>])
                  @@ Opt(Has(r, "escaped"), [escaped |-> TRUE])
    /\ UNCHANGED <<now, tok, req, origin>>
    /\ UNCHANGED server
    /\ UNCHANGED host
    /\ UNCHANGED clients

Next ==
    \/ Tick
    \/ Issue(CoreRequests)
    \/ ServiceIssue(CoreRequests)
    \/ Forge(ForgedClaims(now), KeyPairs)
    \/ Malformed
    \/ VerifyOnce(CoreArgs)

Spec == Init /\ [][Next]_vars

(* Issued tokens, changed in transit *)
NextTamper ==
    \/ Tick
    \/ Issue(TamperRequests)
    \/ Tamper
    \/ VerifyOnce(CoreArgs)

SpecTamper == Init /\ [][NextTamper]_vars

(* Bound and unbound tokens, verified in every context *)
NextBinding ==
    \/ Issue(BindingRequests)
    \/ Forge(DemoClaimsWithoutExp(now), {TheIssuer.private_key})
    \/ VerifyOnce(BindingArgs)

SpecBinding == Init /\ [][NextBinding]_vars

(* Issued, hand-signed and malformed tokens, verified and inspected *)
InspectRequests ==
    Requests(Modules, {{"17"}}, TypeInputs, {<< >>, CoreFingerprint})

InspectArgs ==
    VerifyArgs({"payroll"}, {"17"},
        {<< >>,
         [instance_db_uuid |-> CoreInstance[1], instance_domain |-> CoreInstance[2]]})

NextInspect ==
    \/ Issue(InspectRequests)
    \/ ServiceIssue(InspectRequests)
    \/ Forge(ForgedClaims(now), KeyPairs)
    \/ Malformed
    \/ VerifyOnce(InspectArgs)
    \/ Inspect

SpecInspect == Init /\ [][NextInspect]_vars

(* Tokens verified and, at the same or a later time, verified again *)
RetryRequests ==
    Requests({"payroll"}, {{"17"}}, valid_types, {CoreFingerprint})

RetryClaims(t) == {c \in ForgedClaims(t) : ~Has(c, "instance_fingerprint")}

RetryArgs ==
    VerifyArgs(Modules, {"16", "17"},
        {<< >>,
         [instance_db_uuid |-> CoreInstance[1], instance_domain |-> CoreInstance[2]]})

NextRetry ==
    \/ Tick
    \/ Issue(RetryRequests)
    \/ Forge(RetryClaims(now), KeyPairs)
    \/ Malformed
    \/ VerifyOnce(RetryArgs)
    \/ Elapse
    \/ Retry

SpecRetry == Init /\ [][NextRetry]_vars

(* Well-typed and ill-typed hand-signed tokens and strings that are no     *)
(* token, verified by the client's verifier and by the server's service    *)
NextTyped ==
    \/ Forge(TypedClaims(now), KeyPairs)
    \/ ForgeIllTyped(TypedClaims(now), KeyPairs)
    \/ Malformed
    \/ VerifyOnce(RetryArgs)
    \/ ServiceVerify

SpecTyped == Init /\ [][NextTyped]_vars

(* Issuance through the two issue_license functions and through the       *)
(* endpoint, with and without the customer.                                *)
NextIssuance ==
    \/ Issue(IssuanceRequests)
    \/ ServiceIssue(IssuanceRequests)
    \/ ApiCreateCustomer
    \/ ApiDeleteCustomer
    \/ ApiIssue(IssuanceCreates, {})

SpecIssuance == Init /\ [][NextIssuance]_vars

(* Components constructed from key files that may be missing or hold a key *)
(* of another type, and what can be done with them.                        *)
KeysRequests == Requests({"payroll"}, {{"17"}}, {"perpetual"}, {})

KeysClaims(t) ==
    {c \in ForgedClaims(t) :
        /\ RequiredClaims \subseteq DOMAIN c
        /\ c.iss = Issuer /\ c.license_type = "perpetual"
        /\ ~Has(c, "exp") /\ ~Has(c, "instance_fingerprint")}

KeysCreates == LicenseCreates({{"17"}}, {"perpetual"}, {}, {})

KeysArgs == VerifyArgs({"payroll"}, {"16", "17"}, {<< >>})

NextKeys ==
    \/ InstallKeyFile(KeyPaths)
    \/ ConstructIssuer
    \/ ConstructVerifier
    \/ IssueBy(KeysRequests)
    \/ Forge(KeysClaims(now), KeyPairs)
    \/ VerifyBy(KeysArgs)
    \/ ApiCreateCustomer
    \/ ApiIssue(KeysCreates, {})
    \/ ApiValidate(KeysArgs)

SpecKeys == Init /\ [][NextKeys]_vars

(* Hand-signed tokens, among them demo tokens without exp, tokens with an  *)
(* empty instance_fingerprint claim and tokens whose jti is no UUID text,  *)
(* validated by the endpoint and                                           *)
(* verified by the client with the same arguments; no license is stored,   *)
(* so none is revoked.                                                     *)
AgreeClaims(t) ==
    ForgedClaims(t)
    \cup {[c EXCEPT !.jti = NotAUuid] :
             c \in {d \in ForgedClaims(t) :
                       /\ RequiredClaims \subseteq DOMAIN d
                       /\ d.license_type = "perpetual" /\ d.iss = Issuer
                       /\ ~Has(d, "exp") /\ ~Has(d, "instance_fingerprint")}}
    \cup {c @@ [instance_fingerprint |-> << >>] :
             c \in {d \in ForgedClaims(t) :
                       /\ RequiredClaims \subseteq DOMAIN d
                       /\ ~Has(d, "instance_fingerprint")}}

NextAgree ==
    \/ Forge(AgreeClaims(now), KeyPairs)
    \/ Malformed
    \/ ApiValidate(ServerArgs)
    \/ VerifySame

SpecAgree == Init /\ [][NextAgree]_vars

(* The fingerprint of two instance contexts, computed by the issuer's      *)
(* module function, the server's service and the two verifiers             *)
Fingerprints(db_uuid, domain) ==
    [pair |-> <<db_uuid, domain>>,
     issuer |-> generate_instance_fingerprint(db_uuid, domain),
     server |-> LicenseService_generate_instance_fingerprint(db_uuid, domain),
     verifier |-> _generate_fingerprint(db_uuid, domain),
     odoo |-> aegis_client_generate_fingerprint(db_uuid, domain)]

Fingerprint(ids, domains) ==
    /\ res.op = "none"
    /\ tok = NoToken
    /\ \E u1 \in ids, d1 \in domains, u2 \in ids, d2 \in domains :
           res' = [op |-> "fingerprint", first |-> Fingerprints(u1, d1),
                   second |-> Fingerprints(u2, d2)]
    /\ UNCHANGED <<now, tok, req, origin>>
    /\ UNCHANGED server
    /\ UNCHANGED host
    /\ UNCHANGED clients

(* The fingerprint functions keep no state, so a license is issued from    *)
(* the initial state only, not again after each call of them.              *)
IssueFirst(reqs) ==
    /\ res.op = "none"
    /\ Issue(reqs)

NextFingerprint ==
    \/ Fingerprint(Strs, Strs)
    \/ IssueFirst(BindingRequests)
    \/ VerifyOnce(BindingArgs)

SpecFingerprint == Init /\ [][NextFingerprint]_vars

(* The Odoo client.  A token is issued or hand-signed and stored in the    *)
(* aegis.license record of a module; the record is verified from its form, *)
(* the gate is called for the module, and the protected action of          *)
(* aegis_hello is run, at once or after the token has expired.             *)
OdooModules == {"aegis_hello", "payroll"}

OdooRequests ==
    Requests(OdooModules, {{"17"}}, {"perpetual", "subscription"}, {CoreFingerprint})

OdooArgs == {<< >>, [odoo_version |-> "16"], [instance_db_uuid |-> <<":">>]}

(* A record is created for a module that has none, with the token in hand *)
OdooCreate(modules) ==
    /\ tok # NoToken
    /\ \E m \in modules :
           /\ \A r \in aegis_license : r.module_name # m
           /\ aegis_license' = aegis_license \cup {NewLicenseRecord(m, tok)}
           /\ res' = [op |-> "create", module_name |-> m]
    /\ UNCHANGED <<now, tok, req, origin, sessions>>
    /\ UNCHANGED server
    /\ UNCHANGED host

(* A method of the Odoo models has run with the outcome o *)
OdooCalled(op, module_name, o) ==
    /\ aegis_license' = o.table
    /\ res' = [op |-> op, module_name |-> module_name, at |-> now] @@ o.answer
    /\ UNCHANGED <<now, tok, req, origin, sessions>>
    /\ UNCHANGED server
    /\ UNCHANGED host

ActionVerify(modules) ==
    \E m \in modules :
        /\ \E r \in aegis_license : r.module_name = m
        /\ \E o \in {action_verify(aegis_license, files, m, now)} :
               OdooCalled("action_verify", m, o)

ActionViewsOpen(modules, argset) ==
    \E m \in modules, args \in argset :
        \E o \in {action_views_open(aegis_license, files, m, args, now)} :
            OdooCalled("action_views_open", m, o)

ActionSayHello ==
    \E o \in {action_say_hello(aegis_license, files, now)} :
        OdooCalled("action_say_hello", "aegis_hello", o)

NextOdoo ==
    \/ InstallKeyFile({_get_public_key_path})
    \/ Issue(OdooRequests)
    \/ Forge(TypedClaims(now), KeyPairs)
    \/ ForgeIllTyped(TypedClaims(now), {TheIssuer.private_key})
    \/ DayPasses
    \/ OdooCreate(OdooModules)
    \/ ActionVerify(OdooModules)
    \/ ActionViewsOpen(OdooModules, OdooArgs)
    \/ ActionSayHello

SpecOdoo == Init /\ [][NextOdoo]_vars

(* Revoke requests served at the same time for the licenses of the store *)
NextRevoke ==
    \/ ApiCreateCustomer
    \/ ApiIssue(FollowedCreates, {})
    \/ ApiDeleteCustomer
    \/ RevokeReceive(RevokeIds)
    \/ \E i \in 1 .. MaxRequests : RevokeSelect(i)
    \/ \E i \in 1 .. MaxRequests : RevokeCommit(i)

SpecRevoke == Init /\ [][NextRevoke]_vars

(* The license server: customers, licenses issued and revoked, and the     *)
(* token of the first license validated by the server and verified by the  *)
(* client.                                                                 *)
NextServer ==
    \/ ApiCreateCustomer
    \/ ApiUpdateCustomer
    \/ ApiDeleteCustomer
    \/ ApiIssue(FollowedCreates, OtherCreates)
    \/ ApiRevoke
    \/ ApiValidate(ServerArgs)
    \/ ClientVerify(ServerArgs)
    \/ DayPasses

SpecServer == Init /\ [][NextServer]_vars

-----------------------------------------------------------------------------
(* What the claims speak about: the claims a token string carries, the     *)
(* checks of the pipeline stated one by one on the token, the arguments    *)
(* and the clock of the recorded call.                                     *)

Verified == res.op = "verify"

Readable(t) == t.form = "jws" /\ t.payload.b64ok

ClaimsOf(t) == IF Readable(t) THEN t.payload.claims ELSE << >>

SignatureVerifies(t, key) ==
    /\ Readable(t)
    /\ ~t.sig.short
    /\ base64url_decode(t.sig) = Sign(key, t.header, t.payload)

ModuleOf(c) == IF Has(c, "module") THEN c.module ELSE << >>

FailsCheck(k, t, a, at) ==
    LET c == ClaimsOf(t)
        m == ModuleOf(c)
    IN  CASE k = 1 -> ~SignatureVerifies(t, TheVerifier.public_key)
          [] k = 2 -> ~(RequiredClaims \subseteq DOMAIN c)
          [] k = 3 -> Has(c, "exp") /\ ~(at < c.exp * TicksPerSecond)
          [] k = 4 -> ~(Has(c, "iss") /\ c.iss = TheVerifier.expected_issuer)
          [] k = 5 -> ~(Has(m, "technical_name") /\ m.technical_name = a.module_name)
          [] k = 6 -> ~(Has(m, "allowed_major_versions")
                        /\ a.odoo_version \in m.allowed_major_versions)
          [] k = 7 -> /\ Has(c, "instance_fingerprint")
                      /\ ~(/\ Has(a, "instance_db_uuid")
                           /\ Has(a, "instance_domain")
                           /\ c.instance_fingerprint =
                                <<"sha256:", "#">> \o a.instance_db_uuid
                                    \o <<":">> \o a.instance_domain)
          [] k = 8 -> /\ Has(c, "license_type")
                      /\ c.license_type = "demo"
                      /\ ~Has(c, "exp")

ErrorsOfCheck(k) ==
    CASE k = 1 -> {"Invalid license signature", "License decode error"}
      [] k = 2 -> {"Invalid license token"}
      [] k = 3 -> {"License has expired"}
      [] k = 4 -> {"Invalid issuer"}
      [] k = 5 -> {"License is for another module"}
      [] k = 6 -> {"Odoo version not allowed"}
      [] k = 7 -> {"Instance details not provided", "Instance fingerprint mismatch"}
      [] k = 8 -> {"Demo license must have expiration"}

FailingChecks == {k \in 1 .. 8 : FailsCheck(k, tok, res.args, res.at)}

(* C1: verify_license returns a claim set only when the signature          *)
(* verifies, jti, iss and iat are present, exp is absent or now < exp, iss *)
(* is the expected issuer, the module and the version match, a bound token *)
(* is given both instance values and they recompute its fingerprint, and a *)
(* demo token has exp; in every other case it fails and returns no claims. *)
C1_AcceptOnlyWhenAllHold ==
    Verified =>
        /\ res.ok => FailingChecks = {}
        /\ res.ok => Has(res, "claims") /\ res.claims = ClaimsOf(tok)
        /\ ~res.ok => ~Has(res, "claims") /\ res.error # "none"

C1_Witness ==
    /\ Verified /\ res.ok
    /\ Has(res.claims, "instance_fingerprint")
    /\ res.claims.license_type = "demo"
    /\ Has(res.claims, "exp")

(* C2: the checks run in the order signature/structure, mandatory claims,  *)
(* expiry, issuer, module, version, instance binding, demo policy, and the *)
(* reported failure is that of the earliest failing check.                 *)
C2_EarliestFailureReported ==
    (Verified /\ FailingChecks # {}) =>
        LET first == CHOOSE k \in FailingChecks : \A j \in FailingChecks : k <= j
        IN  ~res.ok /\ res.error \in ErrorsOfCheck(first)

C2_Witness ==
    /\ Verified
    /\ {3, 5, 6} \subseteq FailingChecks
    /\ res.error = "License has expired"

Issued == origin = "issued"

(* The arguments of the recorded call fit the request the token was issued *)
(* for: its module and, for a bound token, the instance it is bound to.    *)
FitsRequest ==
    /\ res.args.module_name = req.module_name
    /\ Has(ClaimsOf(tok), "instance_fingerprint") =>
           /\ Has(res.args, "instance_db_uuid")
           /\ Has(res.args, "instance_domain")
           /\ <<res.args.instance_db_uuid, res.args.instance_domain>> = CoreInstance

(* C3: for every accepted parameter set, verifying the issued token under  *)
(* the matching key against the issued module succeeds for every version   *)
(* in allowed_versions and fails as version not allowed for every other    *)
(* (read here at its most favourable: verified within the second of        *)
(* issuance and, for a bound token, in the instance it is bound to).       *)
C3_IssueThenVerifyVersions ==
    (Issued /\ Verified /\ FitsRequest /\ Timestamp(res.at) = ClaimsOf(tok).iat) =>
        IF res.args.odoo_version \in req.allowed_versions
        THEN res.ok
        ELSE ~res.ok /\ res.error = "Odoo version not allowed"

(* The deadline issued_at + D of the token in hand, in ticks *)
Deadline ==
    (ClaimsOf(tok).iat + req.duration_days * SecondsPerDay) * TicksPerSecond

(* C4: past the signature and mandatory-claims checks, the outcome is      *)
(* "expired" exactly when the token carries exp and now >= exp; a          *)
(* subscription or demo token of duration D is accepted before             *)
(* issued_at + D and expired from then on; a perpetual token never is.     *)
C4_ExpiredExactlyFromDeadline ==
    (Verified /\ {1, 2} \cap FailingChecks = {}) =>
        LET c == ClaimsOf(tok)
            expired == res.error = "License has expired"
        IN  /\ expired <=> (Has(c, "exp") /\ res.at >= c.exp * TicksPerSecond)
            /\ (Issued /\ req.license_type \in {"subscription", "demo"}) =>
                   /\ res.at >= Deadline => expired
                   /\ res.at < Deadline => ~expired
                   /\ (res.at < Deadline /\ FitsRequest
                         /\ res.args.odoo_version \in req.allowed_versions) => res.ok
            /\ (Issued /\ req.license_type = "perpetual") => ~expired

C4_Witness ==
    /\ Verified /\ Issued
    /\ req.license_type = "subscription"
    /\ req.duration_days = 1
    /\ res.at = Deadline
    /\ res.error = "License has expired"

(* C7: for a token without instance_fingerprint the outcome is the same    *)
(* for every instance context: whatever id and domain the call was given   *)
(* (none, only an id, only a domain, any pair), its outcome is that of the *)
(* call without a context.                                                 *)
C7_UnboundIgnoresContext ==
    (Verified /\ ~Has(ClaimsOf(tok), "instance_fingerprint")) =>
        LET r == verify_license(TheVerifier, tok,
                     [module_name |-> res.args.module_name,
                      odoo_version |-> res.args.odoo_version],
                     res.at)
        IN  r.ok = res.ok /\ r.error = res.error

C7_Witness ==
    /\ Verified /\ res.ok
    /\ ~Has(res.claims, "instance_fingerprint")
    /\ Has(res.args, "instance_db_uuid")
    /\ Has(res.args, "instance_domain")
    /\ res.args.instance_db_uuid # res.args.instance_domain

(* C8: a demo token without exp is never accepted, and is rejected as a    *)
(* policy violation when its signature is valid and every other check      *)
(* passes.                                                                 *)
C8_DemoWithoutExpRejected ==
    (Verified /\ Has(ClaimsOf(tok), "license_type")
        /\ ClaimsOf(tok).license_type = "demo" /\ ~Has(ClaimsOf(tok), "exp")) =>
        /\ ~res.ok
        /\ FailingChecks = {8} => res.error = "Demo license must have expiration"

C8_Witness ==
    /\ Verified
    /\ SignatureVerifies(tok, TheVerifier.public_key)
    /\ FailingChecks = {8}
    /\ res.error = "Demo license must have expiration"

(* C9: an issued token carries exp if and only if its license_type is      *)
(* subscription or demo; a perpetual one never does, also when a duration  *)
(* was passed.                                                             *)
C9_ExpIffTimeLimitedType ==
    Issued =>
        (Has(ClaimsOf(tok), "exp") <=> req.license_type \in {"subscription", "demo"})

C9_Witness ==
    /\ Issued
    /\ req.license_type = "perpetual"
    /\ Has(req, "duration_days")
    /\ ~Has(ClaimsOf(tok), "exp")

(* C10: issue_license fails and produces no token whenever the duration is *)
(* zero or negative, so every issued token with exp has exp > iat.         *)
C10_NonPositiveDurationRejected ==
    /\ (origin \in {"issued", "rejected"}
          /\ Has(req, "duration_days") /\ req.duration_days <= 0) =>
           origin = "rejected" /\ tok = NoToken
    /\ (Issued /\ Has(ClaimsOf(tok), "exp")) =>
           ClaimsOf(tok).exp > ClaimsOf(tok).iat

(* C5: no string obtained from an issued token by changing its payload or  *)
(* signature segment, and no string that is not a three-part token, is     *)
(* accepted: each is rejected with a signature or malformed-token failure. *)
C5_TamperedNeverPasses ==
    (origin = "tampered" /\ Verified) =>
        /\ ~res.ok
        /\ res.error \in {"Invalid license signature", "License decode error"}

(* The fingerprint of the pair (u, d), written out *)
FingerprintOf(u, d) == <<"sha256:", "#">> \o u \o <<":">> \o d

BoundAndPastEarlierChecks ==
    /\ Verified
    /\ Has(ClaimsOf(tok), "instance_fingerprint")
    /\ (1 .. 6) \cap FailingChecks = {}

(* C6: a bound token that passes the earlier checks is accepted if and     *)
(* only if id and domain are both supplied and recompute its fingerprint;  *)
(* a missing value gives the binding-context-missing error, and supplied   *)
(* values of which either differs from the bound one give the              *)
(* instance-mismatch error (a value that is empty counts as missing).      *)
C6_BoundAcceptedIffContextMatches ==
    BoundAndPastEarlierChecks =>
        LET a == res.args
            c == ClaimsOf(tok)
            supplied == Truthy(a, "instance_db_uuid") /\ Truthy(a, "instance_domain")
        IN  /\ res.ok <=> (/\ supplied
                           /\ c.instance_fingerprint =
                                FingerprintOf(a.instance_db_uuid, a.instance_domain))
            /\ ~supplied => res.error = "Instance details not provided"
            /\ supplied =>
                 \A u \in Strs \ {<< >>}, d \in Strs \ {<< >>} :
                     (/\ c.instance_fingerprint = FingerprintOf(u, d)
                      /\ (a.instance_db_uuid # u \/ a.instance_domain # d))
                     => res.error = "Instance fingerprint mismatch"

(* C6 as amended: the mismatch error is that of a recomputed fingerprint   *)
(* that differs, which it does whenever exactly one of id and domain       *)
(* differs from the bound one; and acceptance also needs the demo rule to  *)
(* pass.                                                                   *)
C6_BindingAmended ==
    BoundAndPastEarlierChecks =>
        LET a == res.args
            c == ClaimsOf(tok)
            given == Truthy(a, "instance_db_uuid") /\ Truthy(a, "instance_domain")
            match == /\ given
                     /\ c.instance_fingerprint =
                          FingerprintOf(a.instance_db_uuid, a.instance_domain)
        IN  /\ res.ok <=> (match /\ 8 \notin FailingChecks)
            /\ ~given => res.error = "Instance details not provided"
            /\ (given /\ ~match) => res.error = "Instance fingerprint mismatch"
            /\ given =>
                 \A u \in Strs \ {<< >>}, d \in Strs \ {<< >>} :
                     (/\ c.instance_fingerprint = FingerprintOf(u, d)
                      /\ (a.instance_db_uuid # u) # (a.instance_domain # d))
                     => res.error = "Instance fingerprint mismatch"

C6_Witness ==
    /\ BoundAndPastEarlierChecks
    /\ Issued
    /\ req.instance_fingerprint = FingerprintOf(<<"a", ":">>, <<"a">>)
    /\ res.ok
    /\ res.args.instance_db_uuid = <<"a">>
    /\ res.args.instance_domain = <<":", "a">>

(* C12: issue_license raises ValueError and produces no token for every    *)
(* license_type other than perpetual, subscription and demo, whatever the  *)
(* other parameters are.                                                   *)
C12_UnknownTypeRejected ==
    (origin \in {"issued", "rejected"}
        /\ req.license_type \notin {"perpetual", "subscription", "demo"}) =>
        /\ origin = "rejected"
        /\ tok = NoToken
        /\ res.op = "issue" => (~res.ok /\ res.error = "ValueError")

C12_Witness ==
    /\ origin = "rejected"
    /\ res.op = "issue" /\ res.by = "service"
    /\ res.error = "ValueError"
    /\ req.license_type = "trial"
    /\ Has(req, "duration_days") /\ req.duration_days = 1
    /\ Truthy(req, "instance_fingerprint")

(* The issued token of the scenario of C13: perpetual, unbound, for        *)
(* payroll, versions 17 and 18.                                            *)
PayrollScenario ==
    /\ Issued /\ Verified
    /\ req.license_type = "perpetual"
    /\ ~Truthy(req, "instance_fingerprint")
    /\ req.module_name = "payroll"
    /\ req.allowed_versions = {"17", "18"}

(* C13: a correctly signed, unexpired token of the trusted issuer is       *)
(* rejected with the module-mismatch error whenever the requested module   *)
(* differs from its module.technical_name, also when the version is        *)
(* allowed; for the perpetual unbound payroll token with versions 17 and   *)
(* 18, payroll/18 succeeds, payroll/16 fails as version not allowed and    *)
(* accounting fails as module mismatch.                                    *)
C13_ModuleMismatchReported ==
    /\ (Verified /\ (1 .. 4) \cap FailingChecks = {} /\ 5 \in FailingChecks) =>
           ~res.ok /\ res.error = "License is for another module"
    /\ PayrollScenario =>
           /\ (res.args.module_name = "payroll" /\ res.args.odoo_version = "18")
                  => res.ok
           /\ (res.args.module_name = "payroll" /\ res.args.odoo_version = "16")
                  => (~res.ok /\ res.error = "Odoo version not allowed")
           /\ res.args.module_name = "accounting"
                  => (~res.ok /\ res.error = "License is for another module")

C13_Witness ==
    /\ PayrollScenario
    /\ res.args.module_name = "accounting"
    /\ res.args.odoo_version = "18"
    /\ res.error = "License is for another module"

Inspected == res.op = "inspect"

(* The key pair that made the signature the token carries *)
SignedWith(t) == base64url_decode(t.sig).head[1]

(* C14: inspection never checks the signature: for a token signed with a   *)
(* key pair other than the verifier's, get_license_info and                *)
(* decode_license(verify=False) return what the token carries, while       *)
(* verify_license on the same token fails with the invalid-signature       *)
(* error.                                                                  *)
C14_InspectIgnoresSignature ==
    (Inspected /\ origin = "forged" /\ SignedWith(tok) # TheVerifier.public_key) =>
        LET c == ClaimsOf(tok)
        IN  /\ res.ok
            /\ res.by = "decode_license" => res.claims = c
            /\ res.by = "get_license_info" =>
                   /\ res.info.module = c.module
                   /\ res.info.customer = c.customer
                   /\ res.info.license_type = c.license_type
                   /\ Has(res.info, "license_id") <=> Has(c, "jti")
                   /\ res.info.is_bound <=> Has(c, "instance_fingerprint")
            /\ res.after.op = "verify" =>
                   (~res.after.ok /\ res.after.error = "Invalid license signature")

C14_Witness ==
    /\ Inspected /\ origin = "forged"
    /\ SignedWith(tok) = "other"
    /\ res.by = "get_license_info" /\ res.ok
    /\ res.info.is_bound
    /\ res.after.op = "verify"
    /\ res.after.error = "Invalid license signature"

(* C15: for every accepted parameter set, inspecting the issued token      *)
(* returns the module name, the customer name and the license type as      *)
(* supplied and reports the token as bound exactly when an instance        *)
(* fingerprint (a non-empty one) was supplied; without one the claim is    *)
(* not in the token at all.                                                *)
C15_InspectRoundTrip ==
    (Inspected /\ Issued) =>
        LET c == ClaimsOf(tok)
            supplied == Truthy(req, "instance_fingerprint")
        IN  /\ res.ok
            /\ res.by = "get_license_info" =>
                   /\ res.info.module.technical_name = req.module_name
                   /\ res.info.customer.name = req.customer_name
                   /\ res.info.license_type = req.license_type
                   /\ res.info.is_bound <=> supplied
            /\ res.by = "decode_license" =>
                   /\ res.claims.module.technical_name = req.module_name
                   /\ res.claims.customer.name = req.customer_name
                   /\ res.claims.license_type = req.license_type
                   /\ Has(res.claims, "instance_fingerprint") <=> supplied
            /\ supplied => c.instance_fingerprint = req.instance_fingerprint
            /\ ~supplied => ~Has(c, "instance_fingerprint")

C15_Witness ==
    /\ Inspected /\ Issued
    /\ res.by = "get_license_info" /\ res.ok
    /\ req.license_type = "demo"
    /\ req.module_name = "accounting"
    /\ ~Has(req, "instance_fingerprint")
    /\ ~res.info.is_bound
    /\ res.info.module.technical_name = "accounting"

(* A call of verify_license that failed has been repeated *)
RetriedAfterFailure == Verified /\ Has(res, "first") /\ ~res.first.ok

C18_OnlyVerifierErrorsEscape ==
    (res.op \in {"verify", "service_verify"} /\ ~res.ok) => ~Has(res, "escaped")

(* A request for a subscription or demo license that gives no duration *)
NoDuration(r) ==
    /\ r.license_type \in {"subscription", "demo"}
    /\ ~Has(r, "duration_days")

(* The call of an issue_license function just made was given no duration   *)
(* and failed with ValueError without a token.                             *)
IssueWithoutDurationFails ==
    (res'.op = "issue" /\ NoDuration(req')) =>
        /\ ~res'.ok /\ res'.error = "ValueError"
        /\ tok' = NoToken

(* The request just answered by the issue endpoint gave no duration *)
AnsweredWithoutDuration ==
    res'.op = "api_issue" /\ NoDuration(res'.license_data)

NothingStored ==
    /\ db'.licenses = db.licenses
    /\ db'.audit_logs = db.audit_logs

(* C11: issue_license fails with an invalid-parameters error and produces  *)
(* no token whenever license_type is subscription or demo and no duration  *)
(* is given; the issue endpoint then answers 422 and stores no license     *)
(* record and no audit entry.                                              *)
C11_MissingDurationRejected ==
    [][/\ IssueWithoutDurationFails
       /\ AnsweredWithoutDuration =>
              /\ res'.status = HTTP_422_UNPROCESSABLE_ENTITY
              /\ NothingStored]_vars

(* C11 as amended: the endpoint answers 422 and stores nothing when the    *)
(* customer of the request exists or the body fails the validation of      *)
(* LicenseCreate; for a body that is valid apart from the duration and     *)
(* names no stored customer it answers 404, and stores nothing either.     *)
C11_MissingDurationAmended ==
    [][/\ IssueWithoutDurationFails
       /\ AnsweredWithoutDuration =>
              LET license_data == res'.license_data
                  unknown == /\ LicenseCreate_valid(license_data)
                             /\ RowsWithId(db.customers, license_data.customer_id) = {}
              IN  /\ unknown => res'.status = HTTP_404_NOT_FOUND
                  /\ ~unknown => res'.status = HTTP_422_UNPROCESSABLE_ENTITY
                  /\ NothingStored]_vars

C11_Witness ==
    /\ res.op = "api_issue"
    /\ NoDuration(res.license_data)
    /\ res.license_data.license_type = "demo"
    /\ LicenseCreate_valid(res.license_data)
    /\ RowsWithId(db.customers, res.license_data.customer_id) # {}
    /\ res.status = HTTP_422_UNPROCESSABLE_ENTITY
    /\ db.licenses = {} /\ db.audit_logs = EmptyBag

Validated == res.op = "validate"

(* The stored license of the token in hand, if it is stored *)
StoredLicense(t) == RowsWithId(db.licenses, UUID(ClaimsOf(t).jti))

(* C16: once revoke_license has succeeded for a license, every later       *)
(* validate_license call with that license's token returns valid=false,    *)
(* whatever other API operations (issuing licenses, further revoke         *)
(* attempts, creating, updating or deleting customers) run in between.     *)
C16_RevokedStaysInvalid ==
    (Validated /\ origin = "revoked" /\ res.token = tok) => ~res.valid

(* The token checks of validate_license in the order in which it makes     *)
(* them: signature, mandatory claims and issuer in                         *)
(* LicenseService.verify_license, then module, version, expiry and         *)
(* instance binding; the numbers are those of FailsCheck.                  *)
ServerCheckOrder == <<1, 2, 4, 5, 6, 3, 7>>

ServerErrorsOfCheck(k) ==
    IF k \in {1, 2, 4} THEN {"Validation error"} ELSE ErrorsOfCheck(k)

(* The positions in ServerCheckOrder of the checks the validated token     *)
(* fails                                                                   *)
ServerFailing ==
    {i \in DOMAIN ServerCheckOrder :
        FailsCheck(ServerCheckOrder[i], res.token, res.args, res.at)}

(* C19: validate_license consults the stored revocation status only after  *)
(* every token check (signature, issuer, module, version, expiry, instance *)
(* binding) has passed: a token that fails a token check is reported with  *)
(* that check's error also when its license is revoked, and the client's   *)
(* verify_license never consults revocation, so its outcome is the same    *)
(* whether or not the license is revoked.                                  *)
C19_RevocationConsultedLast ==
    /\ (Validated /\ ServerFailing # {}) =>
           LET first == CHOOSE i \in ServerFailing : \A j \in ServerFailing : i <= j
           IN  /\ ~res.valid
               /\ res.error \in ServerErrorsOfCheck(ServerCheckOrder[first])
    /\ (Validated /\ ServerFailing = {}) =>
           LET stored == StoredLicense(res.token)
               revoked == stored # {} /\ TheRow(stored).status = "revoked"
           IN  /\ res.valid <=> ~revoked
               /\ revoked => res.error = "License has been revoked"
    /\ Verified =>
           /\ res.ok <=> FailingChecks = {}
           /\ FailingChecks # {} =>
                  LET first == CHOOSE k \in FailingChecks : \A j \in FailingChecks : k <= j
                  IN  res.error \in ErrorsOfCheck(first)

C19_Witness ==
    /\ Validated
    /\ origin = "revoked" /\ res.token = tok
    /\ StoredLicense(tok) # {}
    /\ TheRow(StoredLicense(tok)).status = "revoked"
    /\ res.args.module_name = "accounting"
    /\ ~res.valid
    /\ res.error = "License is for another module"

(* C20: issuer and verifier are stateless after construction: no issue,    *)
(* verify or inspect call changes the component's key, key id or issuer    *)
(* string, and key material is read from its file exactly once, at         *)
(* construction, never during an issue or verify call.                     *)
C20_KeysReadOnceAtConstruction ==
    /\ _license_service.constructed =>
           _license_service = LicenseService_init(DeployedFiles).service
    /\ Has(res, "reads") =>
           \A i \in DOMAIN res.reads : res.reads[i].during = "__init__"

(* The key file a component is constructed from *)
KeyFileOf(component) ==
    IF component = "LicenseVerifier"
    THEN files[settings.public_key_path]
    ELSE files[settings.private_key_path]

(* C21: key-load failure is fatal at construction: constructing            *)
(* LicenseIssuer, LicenseVerifier or LicenseService with a missing key     *)
(* file or with a PEM key that is not Ed25519 fails with an error and      *)
(* yields no instance, so no token is ever issued or verified by a         *)
(* component without valid key material, and the server's singleton stays  *)
(* unset after a failed load.                                              *)
C21_KeyLoadFailureFatal ==
    LET private == files[settings.private_key_path]
        public == files[settings.public_key_path]
    IN  /\ res.op = "construct" =>
               /\ res.ok <=> KeyFileOf(res.component) \in KeyPairs
               /\ KeyFileOf(res.component) = "missing" => res.error = "FileNotFoundError"
               /\ KeyFileOf(res.component) = "rsa" => res.error = "ValueError"
        /\ components.issuer.constructed => components.issuer.private_key = private
        /\ private \notin KeyPairs => ~components.issuer.constructed
        /\ components.verifier.constructed => components.verifier.public_key = public
        /\ public \notin KeyPairs => ~components.verifier.constructed
        /\ (res.op = "issue" /\ res.ok) => SignedWith(tok) = private
        /\ res.op = "issue" => components.issuer.constructed
        /\ res.op = "verify" => components.verifier.constructed
        /\ _license_service.constructed => _license_service.private_key = private
        /\ private \notin KeyPairs =>
               /\ _license_service = NotConstructed
               /\ db.licenses = {}
               /\ res.op = "api_issue" => res.status # HTTP_201_CREATED
               /\ res.op = "validate" =>
                      (res.status = HTTP_500_INTERNAL_SERVER_ERROR /\ ~res.valid)

C21_Witness ==
    /\ res.op = "api_issue"
    /\ res.status = HTTP_500_INTERNAL_SERVER_ERROR
    /\ files[settings.private_key_path] = "rsa"
    /\ RowsWithId(db.customers, res.license_data.customer_id) # {}
    /\ _license_service = NotConstructed
    /\ ~components.issuer.constructed

(* The endpoint and the client report the same failing check *)
SameCheck(server_error, client_error) ==
    \E k \in 1 .. 8 :
        /\ server_error \in ServerErrorsOfCheck(k)
        /\ client_error \in ErrorsOfCheck(k)

(* C22: the server's validate_license endpoint and the client's            *)
(* verify_license agree: for every token, module name, version and         *)
(* instance context, with the same key, issuer and clock value and with    *)
(* the license not revoked, the endpoint reports valid=true exactly when   *)
(* verify_license accepts, and when both reject they report the same       *)
(* failing check.                                                          *)
C22_ValidateAgreesWithVerify ==
    (Verified /\ Has(res, "validated")) =>
        /\ res.validated.valid <=> res.ok
        /\ (~res.validated.valid /\ ~res.ok) =>
               SameCheck(res.validated.error, res.error)

(* C23: validate_license returns valid=true only for a token whose jti is  *)
(* the id of a license record that is in the store with status active at   *)
(* the time of the call; a correctly signed token whose record was never   *)
(* stored or has been deleted is not reported valid.                       *)
C23_ValidOnlyForStoredActive ==
    (Validated /\ res.valid) =>
        LET stored == StoredLicense(res.token)
        IN  stored # {} /\ TheRow(stored).status = "active"

(* The license record l agrees with the token stored in it; a fingerprint  *)
(* column that is NULL or empty stands for no fingerprint.                 *)
RecordAgreesWithToken(l) ==
    LET c == l.token.payload.claims
    IN  /\ l.id = UUID(c.jti)
        /\ l.license_type = c.license_type
        /\ l.module_name = c.module.technical_name
        /\ l.key_id = l.token.header.kid
        /\ Truthy(l, "instance_fingerprint") <=> Has(c, "instance_fingerprint")
        /\ Has(c, "instance_fingerprint") =>
               l.instance_fingerprint = c.instance_fingerprint
        /\ Has(l, "expires_at") <=> Has(c, "exp")

(* C24: every license record stored by the issue endpoint agrees with the  *)
(* token stored in it: the record id equals the token's jti, its license   *)
(* type, module name, instance fingerprint and key id are those of the     *)
(* token, and the record has an expires_at exactly when the token carries  *)
(* exp (for every accepted request, including a perpetual license          *)
(* requested with duration_days).                                          *)
C24_RecordAgreesWithToken ==
    \A l \in db.licenses : RecordAgreesWithToken(l)

-----------------------------------------------------------------------------
(* Fingerprints and instance contexts *)

Fingerprinted == res.op = "fingerprint"

(* The string that is hashed for a pair *)
Joined(pair) == pair[1] \o <<":">> \o pair[2]

HasColon(text) == \E i \in DOMAIN text : text[i] = ":"

(* The four fingerprint functions return the same value for the pair *)
FunctionsAgree(f) ==
    /\ f.server = f.issuer
    /\ f.verifier = f.issuer
    /\ f.odoo = f.issuer

(* A token issued for a bound request was accepted *)
BoundAccepted ==
    /\ Verified
    /\ Issued
    /\ res.ok
    /\ Has(ClaimsOf(tok), "instance_fingerprint")

(* The pairs whose fingerprint the token in hand is bound to *)
BoundPairs ==
    {p \in Strs \X Strs :
        generate_instance_fingerprint(p[1], p[2]) = req.instance_fingerprint}

ContextPair == <<res.args.instance_db_uuid, res.args.instance_domain>>

(* C25: a bound token is accepted only in the instance context it was      *)
(* bound to: any two different (instance id, domain) pairs give different  *)
(* fingerprints, including pairs that differ only in where a ':' falls     *)
(* between id and domain, and the issuer's, the server's and both          *)
(* verifiers' fingerprint functions return the same value for every pair.  *)
C25_FingerprintIdentifiesContext ==
    /\ Fingerprinted =>
           /\ res.first.pair # res.second.pair =>
                  res.first.issuer # res.second.issuer
           /\ FunctionsAgree(res.first)
           /\ FunctionsAgree(res.second)
    /\ BoundAccepted => \A p \in BoundPairs : p = ContextPair

(* C25 as amended: two pairs give the same fingerprint exactly when id,    *)
(* ':' and domain concatenate to the same string, so pairs that differ     *)
(* only in where a ':' falls collide, and pairs whose ids hold no ':'      *)
(* never do; a bound token is accepted only in a context that concatenates *)
(* to the string it was bound to; the four fingerprint functions return    *)
(* the same value for every pair.                                          *)
C25_FingerprintAmended ==
    /\ Fingerprinted =>
           /\ res.first.issuer = res.second.issuer <=>
                  Joined(res.first.pair) = Joined(res.second.pair)
           /\ (/\ ~HasColon(res.first.pair[1])
               /\ ~HasColon(res.second.pair[1])
               /\ res.first.pair # res.second.pair) =>
                  res.first.issuer # res.second.issuer
           /\ FunctionsAgree(res.first)
           /\ FunctionsAgree(res.second)
    /\ BoundAccepted =>
           \A p \in BoundPairs :
               /\ Joined(p) = Joined(ContextPair)
               /\ (~HasColon(p[1]) /\ ~HasColon(ContextPair[1])) => p = ContextPair

(* Two pairs that differ only in where the ':' falls were fingerprinted *)
C25_Witness ==
    /\ Fingerprinted
    /\ res.first.pair = << <<"a", ":">>, <<"a">> >>
    /\ res.second.pair = << <<"a">>, <<":", "a">> >>
    /\ res.first.server = res.second.odoo

-----------------------------------------------------------------------------
(* Revocation *)

(* The revoke endpoint has just answered a request *)
RevokeAnswered == res'.op = "revoke" /\ res' # res

(* The rows of the licenses table with the id of the path, none for a      *)
(* text that is not a UUID                                                 *)
LicensesWithId(licenses, license_id) ==
    IF IsUuidText(license_id) THEN RowsWithId(licenses, UUID(license_id)) ELSE {}

(* The number of 'revoked' audit entries of a license *)
RevokedEntries(audit_logs, uuid) ==
    BagCardinality(Rows(audit_logs,
                        {a \in BagToSet(audit_logs) :
                            a.license_id = uuid /\ a.event_type = "revoked"}))

(* The answer and the effect of the request just answered, told from the   *)
(* store before it                                                         *)
RevokeEffect ==
    LET license_id == res'.license_id
        found == LicensesWithId(db.licenses, license_id)
        revocable == found # {} /\ TheRow(found).status # "revoked"
    IN  /\ res'.status =
               IF ~IsUuidText(license_id) THEN HTTP_422_UNPROCESSABLE_ENTITY
               ELSE IF found = {} THEN HTTP_404_NOT_FOUND
               ELSE IF ~revocable THEN HTTP_409_CONFLICT
               ELSE HTTP_200_OK
        /\ ~revocable => db' = db
        /\ revocable =>
               LET old == TheRow(found)
                   now_stored == LicensesWithId(db'.licenses, license_id)
               IN  /\ db'.customers = db.customers
                   /\ db'.licenses \ now_stored = db.licenses \ found
                   /\ Cardinality(now_stored) = 1
                   /\ TheRow(now_stored).status = "revoked"
                   /\ TheRow(now_stored).revoked_reason = res'.reason
                   /\ \A f \in DOMAIN old \ {"status"} :
                          TheRow(now_stored)[f] = old[f]
                   /\ db.audit_logs \sqsubseteq db'.audit_logs
                   /\ BagCardinality(db'.audit_logs) =
                          BagCardinality(db.audit_logs) + 1
                   /\ RevokedEntries(db'.audit_logs, old.id) =
                          RevokedEntries(db.audit_logs, old.id) + 1

(* A license that is revoked is revoked in the next state, if still stored *)
StaysRevoked ==
    \A l \in db.licenses :
        l.status = "revoked" =>
            \A k \in db'.licenses : k.id = l.id => k.status = "revoked"

(* C27: revoke_license changes the store only when the license exists and  *)
(* is not yet revoked; then it sets status to revoked with a reason and     *)
(* adds one 'revoked' audit entry in the same commit.  For an id that is   *)
(* not a UUID (422), an unknown license (404) or an already revoked        *)
(* license (409) it leaves every license record and the audit log          *)
(* unchanged, and no operation ever moves a revoked license back to        *)
(* active.                                                                 *)
C27_RevokeChangesOnlyRevocable ==
    [][(RevokeAnswered => RevokeEffect) /\ StaysRevoked]_vars

(* A second revoke request for a revoked license was answered 409 *)
C27_Witness ==
    /\ res.op = "revoke"
    /\ res.status = HTTP_409_CONFLICT
    /\ \E l \in LicensesWithId(db.licenses, res.license_id) :
           /\ l.status = "revoked"
           /\ RevokedEntries(db.audit_logs, l.id) = 1

-----------------------------------------------------------------------------
(* The audit log *)

(* The number of audit entries of a license with the event type *)
EntriesOf(audit_logs, uuid, event_type) ==
    BagCardinality(Rows(audit_logs,
                        {a \in BagToSet(audit_logs) :
                            a.license_id = uuid /\ a.event_type = event_type}))

(* C28: the audit log only grows: after any sequence of API operations,    *)
(* every license that was issued still has its 'issued' audit entry        *)
(* (written in the same commit as the license record) and every revoked    *)
(* license still has its 'revoked' entry, including after the license's    *)
(* customer has been deleted.                                              *)
C28_AuditLogOnlyGrows ==
    [][/\ db.audit_logs \sqsubseteq db'.audit_logs
       /\ \A l \in db'.licenses :
              /\ EntriesOf(db'.audit_logs, l.id, "issued") = 1
              /\ l.status = "revoked" =>
                     EntriesOf(db'.audit_logs, l.id, "revoked") = 1]_vars

-----------------------------------------------------------------------------
(* Revoke requests served at the same time *)

(* The requests for the license that have been answered after they found   *)
(* its row                                                                 *)
AnsweredFor(uuid) ==
    {i \in DOMAIN sessions :
        /\ sessions[i].pc = "done"
        /\ sessions[i].license_id = str(uuid)
        /\ sessions[i].status \notin {HTTP_404_NOT_FOUND,
                                      HTTP_500_INTERNAL_SERVER_ERROR}}

(* C26: for every interleaving of concurrent revoke_license requests for   *)
(* the same active license, exactly one request succeeds, sets the status  *)
(* to revoked and writes one 'revoked' audit entry; every other request is *)
(* answered 409 and changes nothing.                                       *)
C26_ExactlyOneRevokeSucceeds ==
    \A uuid \in UuidPool :
        LET answered == AnsweredFor(uuid)
            succeeded == {i \in answered : sessions[i].status = HTTP_200_OK}
        IN  /\ Cardinality(succeeded) <= 1
            /\ RevokedEntries(db.audit_logs, uuid) <= 1
            /\ answered # {} =>
                   /\ Cardinality(succeeded) = 1
                   /\ \A i \in answered \ succeeded :
                          sessions[i].status = HTTP_409_CONFLICT
                   /\ \A l \in RowsWithId(db.licenses, uuid) :
                          /\ l.status = "revoked"
                          /\ RevokedEntries(db.audit_logs, uuid) = 1

-----------------------------------------------------------------------------
(* The Odoo gate *)

GateCalled == res.op = "action_views_open"

SaidHello == res.op = "action_say_hello"

(* The record the call found agrees with the call: it is the module's, and *)
(* verify_license, called at the time of the call with the key of the      *)
(* module's key file, accepts its token for the module.                    *)
RecordVerifiedNow ==
    /\ res.had_record
    /\ res.before.module_name = res.module_name
    /\ res.call_args.module_name = res.module_name
    /\ files[_get_public_key_path] \in KeyPairs
    /\ verify_license([public_key |-> files[_get_public_key_path],
                       expected_issuer |-> Issuer],
                      res.before.license_token, res.call_args, res.at).ok

(* C29: the Odoo gate action_views_open returns True only when a license   *)
(* record exists for the module and verify_license accepted that record's  *)
(* token in this very call; with no record for the module or with a        *)
(* rejected token it raises UserError, so the protected action of a        *)
(* dependent module (aegis_hello.action_say_hello) never proceeds past the *)
(* gate without a verified license.                                        *)
C29_GateOpensOnlyWhenVerified ==
    /\ GateCalled =>
           /\ res.returned <=> res.raised = "none"
           /\ res.returned => (res.call = "accepted" /\ RecordVerifiedNow)
           /\ (~res.had_record \/ res.call = "rejected") =>
                  (res.raised = "UserError" /\ ~res.returned)
    /\ SaidHello =>
           /\ res.module_name = "aegis_hello"
           /\ res.proceeded => (res.call = "accepted" /\ RecordVerifiedNow)

(* The greeting of aegis_hello was shown *)
C29_Witness ==
    /\ SaidHello
    /\ res.proceeded
    /\ \E r \in aegis_license : r.module_name = "aegis_hello" /\ r.state = "valid"

-----------------------------------------------------------------------------
(* The state of an Odoo license record *)

(* A method of the Odoo models has just run _verify_and_update on the      *)
(* record of res.module_name, and verify_license was called in it          *)
VerifyCalled ==
    /\ res.op \in {"action_verify", "action_views_open", "action_say_hello"}
    /\ res.had_record
    /\ res.call \in {"accepted", "rejected", "escaped"}

RecordOf(module_name) ==
    TheRow({r \in aegis_license : r.module_name = module_name})

SameCache(record, before) ==
    \A f \in CachedFields :
        /\ Has(record, f) <=> Has(before, f)
        /\ Has(record, f) => record[f] = before[f]

(* C30: after any sequence of _verify_and_update calls on an Odoo license  *)
(* record, state is 'valid' exactly when the most recent verify_license    *)
(* call accepted the token and 'invalid' exactly when it rejected it       *)
(* ('unknown' only before the first call); last_error is empty whenever    *)
(* state is 'valid' and holds the rejection reason whenever state is       *)
(* 'invalid'; a rejection leaves the cached license_type, issued_at,       *)
(* expires_at, is_bound, customer_name and allowed_versions unchanged.     *)
C30_StateFollowsLastVerification ==
    VerifyCalled =>
        LET record == RecordOf(res.module_name)
        IN  /\ record.state = "valid" <=> res.call = "accepted"
            /\ record.state = "invalid" <=> res.call = "rejected"
            /\ record.state # "unknown"
            /\ record.state = "valid" => ~Has(record, "last_error")
            /\ record.state = "invalid" =>
                   (Has(record, "last_error") /\ record.last_error = res.error)
            /\ res.call = "rejected" => SameCache(record, res.before)

====
